---- MODULE Spec2Model ----
(***************************************************************************)
(* Model of the WP-CLI command adapter (praisonaiwp/core/wp_client.py).    *)
(*                                                                         *)
(* Text is modelled as a sequence of one-character strings, so that the    *)
(* adapter's string operations (replace, lower, strip, join, substring     *)
(* test, JSON decoding) are computed character by character, as the code   *)
(* computes them.                                                          *)
(***************************************************************************)
EXTENDS Integers, Sequences, FiniteSets, TLC

VARIABLES
    target,     \* the adapter's stored fields: wp_path, php_bin, wp_cli
    call,       \* the invocation in progress: operation name and arguments
    reply,      \* what the remote executor answered to that invocation
    issued,     \* the lines the invocation passed to ssh.execute, in order
    outcome,    \* what the invocation gave its caller: a value or an error
    logged,     \* the records the invocation wrote to the module logger
    printed,    \* the console lines of the command-line layer that are modelled
    before,     \* what the same call gave when the caller made it just before
    session     \* what a command handler did with the remote connection, in order

vars == <<target, call, reply, issued, outcome, logged, printed, before, session>>

----------------------------------------------------------------------------
(* Bounds of the model.                                                    *)

MaxErrChunks == 2   \* stderr texts are built from at most this many chunks
MaxOutChunks == 3   \* stdout texts are built from at most this many chunks
MaxValChunks == 3   \* option values are built from at most this many chunks
MaxOpts == 2        \* keyword options per wp() call
MaxLines == 12      \* command lines one run of a command handler may issue
MaxPosts == 2       \* posts in a file given to the bulk creation

----------------------------------------------------------------------------
(* Python string primitives over character sequences.                      *)

\* a statement's value is computed once, when the statement runs, and what
\* follows works with that value: Then([x \in {v} |-> e]) is e for x the value of v
Then(f) == f[CHOOSE v \in DOMAIN f : TRUE]

RECURSIVE Cat(_)
\* ''.join(parts)
Cat(parts) ==
    IF parts = <<>> THEN <<>> ELSE Head(parts) \o Cat(Tail(parts))

RECURSIVE Join(_, _)
\* sep.join(parts)
Join(parts, sep) ==
    IF parts = <<>> THEN <<>>
    ELSE IF Len(parts) = 1 THEN parts[1]
    ELSE parts[1] \o sep \o Join(Tail(parts), sep)

RECURSIVE Replace(_, _, _)
\* s.replace(old, new) for a one-character old
Replace(s, old, new) ==
    IF s = <<>> THEN <<>>
    ELSE (IF Head(s) = old THEN new ELSE <<Head(s)>>) \o Replace(Tail(s), old, new)

LowerChar(c) ==
    LET UpperCase ==
            <<"A","B","C","D","E","F","G","H","I","J","K","L","M",
              "N","O","P","Q","R","S","T","U","V","W","X","Y","Z">>
        LowerCase ==
            <<"a","b","c","d","e","f","g","h","i","j","k","l","m",
              "n","o","p","q","r","s","t","u","v","w","x","y","z">>
    IN  IF \E i \in 1..26 : UpperCase[i] = c
        THEN LowerCase[CHOOSE i \in 1..26 : UpperCase[i] = c]
        ELSE c

\* s.lower()
Lower(s) == [i \in 1..Len(s) |-> LowerChar(s[i])]

\* pat in s
Contains(s, pat) ==
    \E i \in 0..(Len(s) - Len(pat)) :
        \A j \in 1..Len(pat) : s[i + j] = pat[j]

StartsWith(s, pat) ==
    /\ Len(pat) <= Len(s)
    /\ \A j \in 1..Len(pat) : s[j] = pat[j]

Whitespace == {" ", "\t", "\n", "\r"}

\* s.strip()
Strip(s) ==
    LET keep == {i \in 1..Len(s) : s[i] \notin Whitespace}
    IN  IF keep = {} THEN <<>>
        ELSE LET lo == CHOOSE i \in keep : \A j \in keep : i <= j
                 hi == CHOOSE i \in keep : \A j \in keep : j <= i
             IN  SubSeq(s, lo, hi)

RECURSIVE Split(_, _)
\* s.split(sep) for a one-character sep
Split(s, sep) ==
    LET hits == {i \in 1..Len(s) : s[i] = sep}
    IN  IF hits = {} THEN <<s>>
        ELSE LET i == CHOOSE h \in hits : \A o \in hits : h <= o
             IN  <<SubSeq(s, 1, i - 1)>> \o Split(SubSeq(s, i + 1, Len(s)), sep)

\* bool(s) of a string
Truthy(s) == Len(s) > 0

RECURSIVE Texts(_, _)
\* every concatenation of at most n chunks
Texts(chunks, n) ==
    IF n = 0 THEN {<<>>}
    ELSE LET T == Texts(chunks, n - 1)
         IN  T \cup {c \o t : c \in chunks, t \in T}

----------------------------------------------------------------------------
(* Outcomes of an invocation.                                              *)

NoJson == [j |-> "none", n |-> 0, items |-> <<>>]

StrVal(s) == [t |-> "str", s |-> s, v |-> NoJson]
JsonVal(v) == [t |-> "json", s |-> <<>>, v |-> v]

Return(v) == [kind |-> "return", exc |-> "", msg |-> <<>>, value |-> v]
Raise(exc, msg) == [kind |-> "raise", exc |-> exc, msg |-> msg, value |-> StrVal(<<>>)]

LogRec(level, msg) == [level |-> level, msg |-> msg]

\* what ssh.execute does with one line: it raises, or returns (stdout, stderr)
Raises(exc, msg) == [raises |-> TRUE, exc |-> exc, msg |-> msg, stdout |-> <<>>, stderr |-> <<>>]
Answers(stdout, stderr) == [raises |-> FALSE, exc |-> "", msg |-> <<>>, stdout |-> stdout, stderr |-> stderr]

----------------------------------------------------------------------------
(* _execute_wp: the execution primitive.                                   *)

FullCmd_NoCd(t, command) ==
    t.php_bin \o <<" ">> \o t.wp_cli \o <<" ">> \o command

\* full_cmd = f"cd {self.wp_path} && {self.php_bin} {self.wp_cli} {command}"
FullCmd(t, command) ==
    <<"c","d"," ">> \o t.wp_path \o <<" ","&","&"," ">>
        \o t.php_bin \o <<" ">> \o t.wp_cli \o <<" ">> \o command

PatCommandNotFound == <<"c","o","m","m","a","n","d"," ","n","o","t"," ","f","o","u","n","d">>
PatNoSuchFile == <<"n","o"," ","s","u","c","h"," ","f","i","l","e"," ","o","r"," ","d","i","r","e","c","t","o","r","y">>
PatError == <<"e","r","r","o","r",":">>
PatTermMissing == <<"t","e","r","m"," ","d","o","e","s","n","'","t"," ","e","x","i","s","t">>

MsgTransport(e) ==
    <<"F","a","i","l","e","d"," ","t","o"," ","e","x","e","c","u","t","e"," ","W","P","-","C","L","I"," ","c","o","m","m","a","n","d",":"," ">> \o e

MsgCommandNotFound(t, stderr) ==
    <<"W","P","-","C","L","I"," ","c","o","m","m","a","n","d"," ","n","o","t"," ","f","o","u","n","d","\n","E","r","r","o","r",":"," ">>
        \o stderr
        \o <<"\n","\n","P","l","e","a","s","e"," ","v","e","r","i","f","y",":","\n","1","."," ","W","P","-","C","L","I"," ","i","s"," ","i","n","s","t","a","l","l","e","d"," ","a","t",":"," ">>
        \o t.wp_cli
        \o <<"\n","2","."," ","P","H","P"," ","b","i","n","a","r","y"," ","i","s"," ","c","o","r","r","e","c","t",":"," ">>
        \o t.php_bin

MsgNoSuchFile(t, stderr) ==
    <<"F","i","l","e"," ","o","r"," ","d","i","r","e","c","t","o","r","y"," ","n","o","t"," ","f","o","u","n","d","\n","E","r","r","o","r",":"," ">>
        \o stderr
        \o <<"\n","\n","P","l","e","a","s","e"," ","v","e","r","i","f","y",":","\n","1","."," ","W","o","r","d","P","r","e","s","s"," ","p","a","t","h",":"," ">>
        \o t.wp_path
        \o <<"\n","2","."," ","W","P","-","C","L","I"," ","p","a","t","h",":"," ">>
        \o t.wp_cli

MsgWpCliError(stderr) ==
    <<"W","P","-","C","L","I"," ","e","r","r","o","r",":"," ">> \o stderr

MsgExecuting(command) ==
    <<"E","x","e","c","u","t","i","n","g"," ","W","P","-","C","L","I",":"," ">> \o command

\* what the classifier decides for a stderr text
Verdict(fatal, msg, logs) == [fatal |-> fatal, msg |-> msg, logs |-> logs]

Classify_ErrorFirst(t, stderr) ==
    LET error_lower == Lower(stderr)
    IN  IF ~Truthy(stderr) THEN Verdict(FALSE, <<>>, <<>>)
        ELSE IF Contains(error_lower, PatError)
        THEN Verdict(TRUE, MsgWpCliError(stderr),
                     IF ~Contains(error_lower, PatTermMissing)
                     THEN <<LogRec("error", MsgWpCliError(stderr))>> ELSE <<>>)
        ELSE IF Contains(error_lower, PatCommandNotFound)
        THEN Verdict(TRUE, MsgCommandNotFound(t, stderr), <<>>)
        ELSE IF Contains(error_lower, PatNoSuchFile)
        THEN Verdict(TRUE, MsgNoSuchFile(t, stderr), <<>>)
        ELSE Verdict(FALSE, <<>>, <<>>)

Classify_TermNotFatal(t, stderr) ==
    LET error_lower == Lower(stderr)
    IN  IF ~Truthy(stderr) THEN Verdict(FALSE, <<>>, <<>>)
        ELSE IF Contains(error_lower, PatCommandNotFound)
        THEN Verdict(TRUE, MsgCommandNotFound(t, stderr), <<>>)
        ELSE IF Contains(error_lower, PatNoSuchFile)
        THEN Verdict(TRUE, MsgNoSuchFile(t, stderr), <<>>)
        ELSE IF Contains(error_lower, PatError) /\ ~Contains(error_lower, PatTermMissing)
        THEN Verdict(TRUE, MsgWpCliError(stderr), <<LogRec("error", MsgWpCliError(stderr))>>)
        ELSE Verdict(FALSE, <<>>, <<>>)

Classify_AnyStderrFatal(t, stderr) ==
    LET error_lower == Lower(stderr)
    IN  IF ~Truthy(stderr) THEN Verdict(FALSE, <<>>, <<>>)
        ELSE IF Contains(error_lower, PatCommandNotFound)
        THEN Verdict(TRUE, MsgCommandNotFound(t, stderr), <<>>)
        ELSE IF Contains(error_lower, PatNoSuchFile)
        THEN Verdict(TRUE, MsgNoSuchFile(t, stderr), <<>>)
        ELSE Verdict(TRUE, MsgWpCliError(stderr), <<LogRec("error", MsgWpCliError(stderr))>>)

Classify_CaseSensitive(t, stderr) ==
    LET error_lower == Lower(stderr)
    IN  IF ~Truthy(stderr) THEN Verdict(FALSE, <<>>, <<>>)
        ELSE IF Contains(error_lower, PatCommandNotFound)
        THEN Verdict(TRUE, MsgCommandNotFound(t, stderr), <<>>)
        ELSE IF Contains(error_lower, PatNoSuchFile)
        THEN Verdict(TRUE, MsgNoSuchFile(t, stderr), <<>>)
        ELSE IF Contains(error_lower, PatError)
        THEN Verdict(TRUE, MsgWpCliError(stderr),
                     IF ~Contains(stderr, PatTermMissing)
                     THEN <<LogRec("error", MsgWpCliError(stderr))>> ELSE <<>>)
        ELSE Verdict(FALSE, <<>>, <<>>)

\* the checks on stderr of _execute_wp, in the code's order
Classify(t, stderr) ==
    LET error_lower == Lower(stderr)
    IN  IF ~Truthy(stderr) THEN Verdict(FALSE, <<>>, <<>>)
        ELSE IF Contains(error_lower, PatCommandNotFound)
        THEN Verdict(TRUE, MsgCommandNotFound(t, stderr), <<>>)
        ELSE IF Contains(error_lower, PatNoSuchFile)
        THEN Verdict(TRUE, MsgNoSuchFile(t, stderr), <<>>)
        ELSE IF Contains(error_lower, PatError)
        THEN Verdict(TRUE, MsgWpCliError(stderr),
                     IF ~Contains(error_lower, PatTermMissing)
                     THEN <<LogRec("error", MsgWpCliError(stderr))>> ELSE <<>>)
        ELSE Verdict(FALSE, <<>>, <<>>)

\* the except clause around ssh.execute
Transport_Unwrapped(r) == Raise(r.exc, r.msg)

Transport(r) == Raise("WPCLIError", MsgTransport(r.msg))

\* one run of _execute_wp(command) against the executor's answer r:
\* the outcome, the lines sent to the executor and the log records written
Run(out, lines, logs) == [out |-> out, issued |-> lines, logged |-> logs]

_execute_wp(t, command, r) ==
    LET full_cmd == FullCmd(t, command)
        dbg == LogRec("debug", MsgExecuting(command))
    IN  IF r.raises
        THEN Run(Transport(r), <<full_cmd>>, <<dbg>>)
        ELSE LET c == Classify(t, r.stderr)
             IN  IF c.fatal
                 THEN Run(Raise("WPCLIError", c.msg), <<full_cmd>>, <<dbg>> \o c.logs)
                 ELSE Run(Return(StrVal(Strip(r.stdout))), <<full_cmd>>, <<dbg>>)

----------------------------------------------------------------------------
(* json.loads, on the texts the model's executor can answer: decimal       *)
(* numbers, strings without escapes, arrays and objects, with JSON         *)
(* whitespace between tokens.                                              *)

Digits == <<"0","1","2","3","4","5","6","7","8","9">>
IsDigit(c) == \E d \in 1..10 : Digits[d] = c
DigitVal(c) == (CHOOSE d \in 1..10 : Digits[d] = c) - 1

JsonNum(n) == [j |-> "num", n |-> n, items |-> <<>>]
JsonArr(items) == [j |-> "arr", n |-> 0, items |-> items]
\* a str holds its characters, a dict its members in insertion order
JsonStr(s) == [j |-> "str", n |-> 0, items |-> s]
JsonObj(members) == [j |-> "obj", n |-> 0, items |-> members]
Member(k, v) == [k |-> k, v |-> v]

Parsed(v, next) == [ok |-> TRUE, val |-> v, next |-> next]
ParseError == [ok |-> FALSE, val |-> NoJson, next |-> 0]

RECURSIVE SkipWs(_, _)
\* the index of the first character at or after i that is not whitespace
SkipWs(s, i) ==
    IF i <= Len(s) /\ s[i] \in Whitespace THEN SkipWs(s, i + 1) ELSE i

RECURSIVE ScanInt(_, _, _)
\* the digits from i on, read as a decimal number continuing acc
ScanInt(s, i, acc) ==
    IF i <= Len(s) /\ IsDigit(s[i])
    THEN ScanInt(s, i + 1, 10 * acc + DigitVal(s[i]))
    ELSE Parsed(JsonNum(acc), i)

\* the characters that end the plain run of a string: the closing quote, an
\* escape, or a control character json.loads rejects
StringStops == {"\"", "\\", "\n", "\t", "\r"}

\* the first position from i on that holds a character of StringStops
StringEnd(s, i) ==
    LET stops == {j \in i..Len(s) : s[j] \in StringStops}
    IN  IF stops = {} THEN Len(s) + 1 ELSE CHOOSE j \in stops : \A k \in stops : j <= k

\* a string whose opening quote is at i
JsonString(s, i) ==
    LET Ended(e) ==
            IF e <= Len(s) /\ s[e] = "\"" THEN Parsed(JsonStr(SubSeq(s, i + 1, e - 1)), e + 1)
            ELSE ParseError
    IN  Then([it \in {StringEnd(s, i + 1)} |-> Ended(it)])

\* d[k] = v on a dict: a repeated key keeps its place and takes the new value
DictSet(members, k, v) ==
    IF \E i \in 1..Len(members) : members[i].k = k
    THEN [i \in 1..Len(members) |-> IF members[i].k = k THEN Member(k, v) ELSE members[i]]
    ELSE Append(members, Member(k, v))

RECURSIVE JsonValue(_, _)
RECURSIVE JsonItems(_, _, _)
RECURSIVE JsonMembers(_, _, _)

\* one JSON value starting exactly at i
JsonValue(s, i) ==
    IF i > Len(s) THEN ParseError
    ELSE IF s[i] = "["
    THEN Then([j \in {SkipWs(s, i + 1)} |-> IF j <= Len(s) /\ s[j] = "]" THEN Parsed(JsonArr(<<>>), j + 1)
                         ELSE JsonItems(s, j, <<>>)])
    ELSE IF s[i] = "{"
    THEN Then([j \in {SkipWs(s, i + 1)} |-> IF j <= Len(s) /\ s[j] = "}" THEN Parsed(JsonObj(<<>>), j + 1)
                         ELSE JsonMembers(s, j, <<>>)])
    ELSE IF s[i] = "\"" THEN JsonString(s, i)
    ELSE IF s[i] = "0" THEN Parsed(JsonNum(0), i + 1)
    ELSE IF IsDigit(s[i]) THEN ScanInt(s, i, 0)
    ELSE ParseError

\* the members of an object whose next key starts at i
JsonMembers(s, i, acc) ==
    IF i > Len(s) \/ s[i] # "\"" THEN ParseError
    ELSE Then([k \in {JsonString(s, i)} |-> IF ~k.ok THEN ParseError
            ELSE Then([c \in {SkipWs(s, k.next)} |-> IF c > Len(s) \/ s[c] # ":" THEN ParseError
                    ELSE Then([r \in {JsonValue(s, SkipWs(s, c + 1))} |-> IF ~r.ok THEN ParseError
                            ELSE Then([j \in {SkipWs(s, r.next)} |-> IF j > Len(s) THEN ParseError
                                    ELSE IF s[j] = "}"
                                    THEN Parsed(JsonObj(DictSet(acc, k.val.items, r.val)), j + 1)
                                    ELSE IF s[j] = ","
                                    THEN JsonMembers(s, SkipWs(s, j + 1),
                                                     DictSet(acc, k.val.items, r.val))
                                    ELSE ParseError])])])])

\* the items of an array whose next item starts at i
JsonItems(s, i, acc) ==
    Then([r \in {JsonValue(s, i)} |-> IF ~r.ok THEN ParseError
            ELSE Then([j \in {SkipWs(s, r.next)} |-> IF j > Len(s) THEN ParseError
                    ELSE IF s[j] = "]" THEN Parsed(JsonArr(Append(acc, r.val)), j + 1)
                    ELSE IF s[j] = "," THEN JsonItems(s, SkipWs(s, j + 1), Append(acc, r.val))
                    ELSE ParseError])])

\* json.loads(s): ok is FALSE where the code gets a JSONDecodeError
JsonLoads(s) ==
    Then([r \in {JsonValue(s, SkipWs(s, 1))} |-> IF r.ok /\ SkipWs(s, r.next) > Len(s) THEN r ELSE ParseError])

----------------------------------------------------------------------------
(* wp(args, kwargs): the generic dispatch.                                 *)

\* keyword values: True, False, None, a string, a non-negative integer
PyTrue == [t |-> "bool", b |-> TRUE, s |-> <<>>, n |-> 0]
PyFalse == [t |-> "bool", b |-> FALSE, s |-> <<>>, n |-> 0]
PyNone == [t |-> "none", b |-> FALSE, s |-> <<>>, n |-> 0]
PyStr(s) == [t |-> "str", b |-> FALSE, s |-> s, n |-> 0]
PyInt(n) == [t |-> "int", b |-> FALSE, s |-> <<>>, n |-> n]

Opt(k, v) == [k |-> k, v |-> v]

RECURSIVE Decimal(_)
\* str(n) of a non-negative integer
Decimal(n) ==
    IF n < 10 THEN <<Digits[n + 1]>> ELSE Decimal(n \div 10) \o <<Digits[(n % 10) + 1]>>

\* str(value)
Str(value) ==
    CASE value.t = "str" -> value.s
      [] value.t = "int" -> Decimal(value.n)
      [] value.t = "none" -> <<"N","o","n","e">>
      [] value.t = "bool" -> IF value.b THEN <<"T","r","u","e">> ELSE <<"F","a","l","s","e">>

EscapeValue_Backslash(s) == Replace(s, "'", <<"\\","'">>)

\* escaped_value = str(value).replace("'", "'\\''")
EscapeValue(s) == Replace(s, "'", <<"'","\\","'","'">>)

\* flag_key = key.replace('_', '-')
FlagKey(key) == Replace(key, "_", <<"-">>)

RenderOption_Truthy(key, value) ==
    IF value = PyTrue
    THEN << <<"-","-">> \o FlagKey(key) >>
    ELSE IF value # PyNone
    THEN << <<"-","-">> \o FlagKey(key) \o <<"=","'">> \o EscapeValue(Str(value)) \o <<"'">> >>
    ELSE <<>>

\* the command parts one keyword option contributes: one or none
RenderOption(key, value) ==
    IF value = PyTrue
    THEN << <<"-","-">> \o FlagKey(key) >>
    ELSE IF value # PyFalse /\ value # PyNone
    THEN << <<"-","-">> \o FlagKey(key) \o <<"=","'">> \o EscapeValue(Str(value)) \o <<"'">> >>
    ELSE <<>>

WpCommand_OptionsFirst(args, kwargs) ==
    Join(Cat([i \in 1..Len(kwargs) |-> RenderOption(kwargs[i].k, kwargs[i].v)]) \o args, <<" ">>)

\* cmd = ' '.join(cmd_parts)
WpCommand(args, kwargs) ==
    Join(args \o Cat([i \in 1..Len(kwargs) |-> RenderOption(kwargs[i].k, kwargs[i].v)]), <<" ">>)

AutoParseJson_AnyKey(kwargs) ==
    \E i \in 1..Len(kwargs) : kwargs[i].v = PyStr(<<"j","s","o","n">>)

\* auto_parse_json after the loop over kwargs
AutoParseJson(kwargs) ==
    \E i \in 1..Len(kwargs) :
        /\ kwargs[i].v # PyTrue
        /\ kwargs[i].v # PyFalse /\ kwargs[i].v # PyNone
        /\ FlagKey(kwargs[i].k) = <<"f","o","r","m","a","t">>
        /\ kwargs[i].v = PyStr(<<"j","s","o","n">>)

JsonLogLimit == 100

MsgJsonFailed(result) ==
    <<"F","a","i","l","e","d"," ","t","o"," ","p","a","r","s","e"," ","J","S","O","N"," ","o","u","t","p","u","t",":"," ">>
        \o SubSeq(result, 1, IF Len(result) < JsonLogLimit THEN Len(result) ELSE JsonLogLimit)

Decoded(value, logs) == [value |-> value, logs |-> logs]

WpResult_DecodeAlways(auto_parse_json, result) ==
    IF Truthy(Strip(result))
    THEN LET d == JsonLoads(result)
         IN  IF d.ok THEN Decoded(JsonVal(d.val), <<>>)
             ELSE Decoded(StrVal(result), <<LogRec("warning", MsgJsonFailed(result))>>)
    ELSE Decoded(StrVal(IF Truthy(result) THEN Strip(result) ELSE <<>>), <<>>)

\* what wp() returns for the primitive's result
WpResult(auto_parse_json, result) ==
    IF auto_parse_json /\ Truthy(Strip(result))
    THEN LET d == JsonLoads(result)
         IN  IF d.ok THEN Decoded(JsonVal(d.val), <<>>)
             ELSE Decoded(StrVal(result), <<LogRec("warning", MsgJsonFailed(result))>>)
    ELSE Decoded(StrVal(IF Truthy(result) THEN Strip(result) ELSE <<>>), <<>>)

wp(t, args, kwargs, r) ==
    LET run == _execute_wp(t, WpCommand(args, kwargs), r)
    IN  IF run.out.kind = "raise" THEN run
        ELSE LET d == WpResult(AutoParseJson(kwargs), run.out.value.s)
             IN  Run(Return(d.value), run.issued, run.logged \o d.logs)

----------------------------------------------------------------------------
(* The inputs the model draws: targets, arguments, executor answers.       *)

Targets ==
    { [wp_path |-> <<"/","v","a","r","/","w","w","w">>, php_bin |-> <<"p","h","p">>,
       wp_cli |-> <<"/","b","i","n","/","w","p">>],
      [wp_path |-> <<"/","s","r","v">>, php_bin |-> <<"p","h","p","8">>,
       wp_cli |-> <<"w","p">>] }

ErrTexts ==
    \* pieces of stderr: the classifier's phrases in both letter cases, and noise
    LET ErrChunks ==
            { <<"c","o","m","m","a","n","d"," ","n","o","t"," ","f","o","u","n","d">>,
              <<"C","o","m","m","a","n","d"," ","N","o","t"," ","F","o","u","n","d">>,
              <<"N","o"," ","s","u","c","h"," ","f","i","l","e"," ","o","r"," ","d","i","r","e","c","t","o","r","y">>,
              <<"E","r","r","o","r",":"," ">>,
              <<"e","r","r","o","r",":">>,
              <<"T","e","r","m"," ","d","o","e","s","n","'","t"," ","e","x","i","s","t">>,
              <<"t","e","r","m"," ","d","o","e","s","n","'","t"," ","e","x","i","s","t">>,
              <<"W","a","r","n","i","n","g",":"," ">>,
              <<"e","r","r","o","r"," ">> }
    IN  Texts(ErrChunks, MaxErrChunks)

OutTexts ==
    \* pieces of stdout: whitespace, JSON tokens, plain text
    LET OutChunks ==
            { <<" ">>, <<"[">>, <<"[","1">>, <<",","2">>, <<"]">>, <<"4">>, <<"o","k">> }
    IN  Texts(OutChunks, MaxOutChunks)

ValTexts ==
    \* pieces of option values: the quote, the backslash, a space, a letter
    LET ValChunks ==
            { <<"'">>, <<"\\">>, <<" ">>, <<"a">> }
    IN  Texts(ValChunks, MaxValChunks)

FewOut ==
    { <<>>, <<" ","4","2","\n">>, <<"o","k">>,
      <<"e","r","r","o","r",":"," ","c","o","m","m","a","n","d"," ","n","o","t"," ","f","o","u","n","d">> }
FewErr == { <<>>, <<"W","a","r","n","i","n","g",":"," ">> }

\* the executor raising: exception types with their messages
Failures ==
    { Raises(e, m) : e \in {"SSHConnectionError", "TimeoutError"},
                     m \in { <<"t","i","m","e","d"," ","o","u","t">>,
                             <<"c","o","m","m","a","n","d"," ","n","o","t"," ","f","o","u","n","d">> } }

Commands ==
    { <<"p","o","s","t"," ","l","i","s","t">>, <<"c","a","c","h","e"," ","f","l","u","s","h">> }

ExecInput(command, r) == [command |-> command, r |-> r]

\* many stderr texts with few stdout texts, and many stdout texts with few
\* stderr texts
ExecInputs ==
    { ExecInput(c, r) : c \in Commands, r \in Failures }
        \cup { ExecInput(c, Answers(o, e)) : c \in Commands, o \in FewOut, e \in ErrTexts }
        \cup { ExecInput(<<"p","o","s","t"," ","l","i","s","t">>, Answers(o, e)) :
                    o \in OutTexts, e \in FewErr }

VerbSeqs ==
    { << <<"p","l","u","g","i","n">> >>,
      << <<"p","o","s","t">>, <<"l","i","s","t">> >>,
      << <<"s","e","a","r","c","h","-","r","e","p","l","a","c","e">>, <<"o","l","d">>, <<"n","e","w">> >> }

OptKeys ==
    { <<"f","o","r","m","a","t">>, <<"d","r","y","_","r","u","n">>,
      <<"p","o","s","t","_","t","i","t","l","e">> }

OptValues ==
    { PyTrue, PyFalse, PyNone, PyStr(<<"j","s","o","n">>), PyStr(<<"i","t","'","s">>) }

RECURSIVE KwSeqs(_)
\* keyword mappings of at most n options: ordered, keys distinct
KwSeqs(n) ==
    IF n = 0 THEN {<<>>}
    ELSE LET K == KwSeqs(n - 1)
         IN  K \cup { Append(kw, Opt(k, v)) :
                        kw \in {q \in K : Len(q) = n - 1}, k \in OptKeys, v \in OptValues }

DistinctKeys(kw) == \A i, j \in 1..Len(kw) : kw[i].k = kw[j].k => i = j

WpInput(args, kwargs, r) == [args |-> args, kwargs |-> kwargs, r |-> r]

\* many option mappings, few answers
RenderInputs ==
    { WpInput(a, kw, r) :
        a \in VerbSeqs,
        kw \in {q \in KwSeqs(MaxOpts) : DistinctKeys(q)},
        r \in { Answers(<<"o","k","\n">>, <<>>),
                Answers(<<>>, <<"E","r","r","o","r",":"," ","x">>),
                Raises("TimeoutError", <<"t","i","m","e","d"," ","o","u","t">>) } }

\* many option values, one answer
EscapeInputs ==
    { WpInput(<< <<"p","o","s","t">>, <<"c","r","e","a","t","e">> >>,
              << Opt(<<"p","o","s","t","_","t","i","t","l","e">>, PyStr(v)) >>,
              Answers(<<"4","2">>, <<>>)) : v \in ValTexts }
        \cup { WpInput(<< <<"p","o","s","t">>, <<"l","i","s","t">> >>,
                       << Opt(<<"p","o","s","t","_","_","i","n">>, PyInt(n)) >>,
                       Answers(<<"4","2">>, <<>>)) : n \in {0, 7, 120} }

DecodeKw ==
    { <<>>,
      << Opt(<<"f","o","r","m","a","t">>, PyStr(<<"j","s","o","n">>)) >>,
      << Opt(<<"f","o","r","m","a","t">>, PyStr(<<"c","s","v">>)) >>,
      << Opt(<<"f","i","e","l","d","s">>, PyStr(<<"j","s","o","n">>)) >>,
      << Opt(<<"p","o","r","c","e","l","a","i","n">>, PyTrue),
         Opt(<<"f","o","r","m","a","t">>, PyStr(<<"j","s","o","n">>)) >> }

\* few option mappings, many answers
DecodeInputs ==
    { WpInput(<< <<"p","o","s","t">>, <<"l","i","s","t">> >>, kw, Answers(o, e)) :
        kw \in {q \in DecodeKw : Len(q) <= 1 /\ \A i \in 1..Len(q) : q[i].v = PyStr(<<"j","s","o","n">>)},
        o \in OutTexts, e \in {<<>>} }
        \cup { WpInput(<< <<"p","o","s","t">>, <<"l","i","s","t">> >>, kw, Answers(o, e)) :
                    kw \in DecodeKw \cup { << Opt(<<"f","o","r","m","a","t">>, PyTrue) >> },
                    o \in FewOut \cup { <<"[","1",",","2","]","\n">>, <<"\n","[","1","]">>, <<"\t","\n">> },
                    e \in FewErr }

WpInputs == RenderInputs \cup EscapeInputs \cup DecodeInputs

----------------------------------------------------------------------------
(* Values the typed operations return besides text and decoded JSON.       *)

NoneVal == [t |-> "none", s |-> <<>>, v |-> NoJson]
TrueVal == [t |-> "true", s |-> <<>>, v |-> NoJson]
FalseVal == [t |-> "false", s |-> <<>>, v |-> NoJson]
IntVal(n) == [t |-> "int", s |-> <<>>, v |-> JsonNum(n)]

\* str(e) of a raised error: the message it was constructed with
StrOfError(out) == out.msg

\* json.loads raised: the decoder's message is not modelled
JsonDecodeError == Raise("JSONDecodeError", <<>>)

\* repr() of a str: double quotes when it holds a single quote and no double
\* quote, single quotes otherwise
StrRepr(s) ==
    IF (\E i \in 1..Len(s) : s[i] = "'") /\ ~(\E i \in 1..Len(s) : s[i] = "\"")
    THEN <<"\"">> \o Replace(s, "\\", <<"\\","\\">>) \o <<"\"">>
    ELSE <<"'">> \o Replace(Replace(s, "\\", <<"\\","\\">>), "'", <<"\\","'">>) \o <<"'">>

RECURSIVE PyRepr(_)
\* str() of a decoded JSON value
PyRepr(v) ==
    CASE v.j = "num" -> Decimal(v.n)
      [] v.j = "str" -> StrRepr(v.items)
      [] v.j = "arr" ->
            <<"[">> \o Join([i \in 1..Len(v.items) |-> PyRepr(v.items[i])], <<",", " ">>) \o <<"]">>
      [] v.j = "obj" ->
            <<"{">> \o Join([i \in 1..Len(v.items) |->
                                StrRepr(v.items[i].k) \o <<":", " ">> \o PyRepr(v.items[i].v)],
                            <<",", " ">>) \o <<"}">>
      [] OTHER -> <<"N","o","n","e">>

\* bool() of a decoded JSON value
JsonTruthy(v) ==
    CASE v.j = "num" -> v.n # 0
      [] v.j = "none" -> FALSE
      [] OTHER -> Len(v.items) > 0

\* a typed operation that ran a second step after a first
After(first, second) ==
    Run(second.out, first.issued \o second.issued, first.logged \o second.logged)

\* the same run with another outcome and further log records
Ending(run, out, logs) == Run(out, run.issued, run.logged \o logs)

----------------------------------------------------------------------------
(* get_post(post_id, field)                                                *)

GetPostCmd(post_id, field) ==
    <<"p","o","s","t"," ","g","e","t"," ">> \o Decimal(post_id)
        \o (IF Truthy(field) THEN <<" ","-","-","f","i","e","l","d","=">> \o field ELSE <<" ","-","-","f","o","r","m","a","t","=","j","s","o","n">>)

get_post(t, post_id, field, r) ==
    LET Loaded(run, d) ==
            IF d.ok THEN Ending(run, Return(JsonVal(d.val)), <<>>)
            ELSE Ending(run, JsonDecodeError, <<>>)
        Fetched(run) ==
            IF run.out.kind = "raise" \/ Truthy(field) THEN run
            ELSE Then([d \in {JsonLoads(run.out.value.s)} |-> Loaded(run, d)])
    IN  Then([it \in {_execute_wp(t, GetPostCmd(post_id, field), r)} |-> Fetched(it)])

----------------------------------------------------------------------------
(* set_post_categories(post_id, category_ids)                              *)

\* cat_ids_str = ','.join(map(str, category_ids))
CatIdsStr_Reversed(category_ids) ==
    Join([i \in 1..Len(category_ids) |-> Decimal(category_ids[Len(category_ids) + 1 - i])], <<",">>)

CatIdsStr(category_ids) ==
    Join([i \in 1..Len(category_ids) |-> Decimal(category_ids[i])], <<",">>)

SetCategoriesCmd(post_id, category_ids) ==
    <<"p","o","s","t"," ","u","p","d","a","t","e"," ">> \o Decimal(post_id) \o <<" ","-","-","p","o","s","t","_","c","a","t","e","g","o","r","y","=">> \o CatIdsStr(category_ids)

PatTermDoesntExist == <<"T","e","r","m"," ","d","o","e","s","n","'","t"," ","e","x","i","s","t">>

\* the test made on the refetched post: it is truthy and its str() holds the
\* field's name
LooksCategorised(post_data) ==
    JsonTruthy(post_data) /\ Contains(PyRepr(post_data), <<"p","o","s","t","_","c","a","t","e","g","o","r","y">>)

Compensate_Retry(t, post_id, category_ids, update, rs) ==
    LET Retried(again) ==
            IF again.out.kind = "raise" THEN After(update, again)
            ELSE Ending(After(update, again), Return(TrueVal), <<>>)
    IN  IF Contains(StrOfError(update.out), PatTermDoesntExist)
        THEN Retried(_execute_wp(t, SetCategoriesCmd(post_id, category_ids), rs[1]))
        ELSE update

\* the except block: update is the failed run of the update command, rs the
\* executor's answers to what follows
Compensate(t, post_id, category_ids, update, rs) ==
    LET Verified(refetch) ==
            IF refetch.out.kind = "raise" THEN After(update, refetch)
            ELSE IF LooksCategorised(refetch.out.value.v)
            THEN Ending(After(update, refetch), Return(TrueVal),
                        <<LogRec("info", <<"C","a","t","e","g","o","r","i","e","s"," ">> \o CatIdsStr(category_ids)
                            \o <<" ","s","e","t"," ","s","u","c","c","e","s","s","f","u","l","l","y"," ","(","i","g","n","o","r","i","n","g"," ","W","P","-","C","L","I"," ","w","a","r","n","i","n","g",")">>)>>)
            ELSE Ending(After(update, refetch), update.out, <<>>)
    IN  IF Contains(StrOfError(update.out), PatTermDoesntExist)
        THEN Verified(get_post(t, post_id, <<>>, rs[1]))
        ELSE update

set_post_categories(t, post_id, category_ids, rs) ==
    LET Updated(update) ==
            IF update.out.kind = "raise"
            THEN Compensate(t, post_id, category_ids, update, Tail(rs))
            ELSE Ending(update, Return(TrueVal),
                        <<LogRec("info", <<"S","e","t"," ","c","a","t","e","g","o","r","i","e","s"," ">> \o CatIdsStr(category_ids)
                            \o <<" ","f","o","r"," ","p","o","s","t"," ">> \o Decimal(post_id))>>)
    IN  IF category_ids = <<>>
        THEN Run(Return(FalseVal), <<>>, <<LogRec("warning", <<"N","o"," ","c","a","t","e","g","o","r","y"," ","I","D","s"," ","p","r","o","v","i","d","e","d">>)>>)
        ELSE Updated(_execute_wp(t, SetCategoriesCmd(post_id, category_ids), rs[1]))

----------------------------------------------------------------------------
(* get_default_user() and create_post(kwargs)                              *)

UserGetCmd == <<"u","s","e","r"," ","g","e","t"," ","1"," ","-","-","f","i","e","l","d","=","u","s","e","r","_","l","o","g","i","n">>
UserListCmd == <<"u","s","e","r"," ","l","i","s","t"," ","-","-","r","o","l","e","=","a","d","m","i","n","i","s","t","r","a","t","o","r"," ","-","-","f","i","e","l","d","=","u","s","e","r","_","l","o","g","i","n"," ","-","-","f","o","r","m","a","t","=","c","s","v">>

\* s.split('\n')[0]
FirstLine(s) ==
    LET breaks == {i \in 1..Len(s) : s[i] = "\n"}
    IN  IF breaks = {} THEN s
        ELSE SubSeq(s, 1, (CHOOSE i \in breaks : \A k \in breaks : i <= k) - 1)

get_default_user_Strict(t, rs) ==
    LET Listed(both) ==
            IF both.out.kind = "raise" THEN both
            ELSE LET user == FirstLine(Strip(both.out.value.s))
                 IN  Ending(both, Return(IF Truthy(user) THEN StrVal(user) ELSE NoneVal), <<>>)
        Fetched(first) ==
            IF first.out.kind = "return"
            THEN Ending(first, Return(StrVal(Strip(first.out.value.s))), <<>>)
            ELSE Listed(After(first, _execute_wp(t, UserListCmd, rs[2])))
    IN  Fetched(_execute_wp(t, UserGetCmd, rs[1]))

get_default_user(t, rs) ==
    LET Listed(both) ==
            IF both.out.kind = "raise"
            THEN Ending(both, Return(NoneVal),
                        <<LogRec("warning", <<"C","o","u","l","d"," ","n","o","t"," ","g","e","t"," ","d","e","f","a","u","l","t"," ","u","s","e","r",":"," ">> \o StrOfError(both.out))>>)
            ELSE LET user == FirstLine(Strip(both.out.value.s))
                 IN  Ending(both, Return(IF Truthy(user) THEN StrVal(user) ELSE NoneVal), <<>>)
        Fetched(first) ==
            IF first.out.kind = "return"
            THEN Ending(first, Return(StrVal(Strip(first.out.value.s))), <<>>)
            ELSE Listed(After(first, _execute_wp(t, UserListCmd, rs[2])))
    IN  Fetched(_execute_wp(t, UserGetCmd, rs[1]))

\* 'post_author' in kwargs
HasKey(kwargs, key) == \E i \in 1..Len(kwargs) : kwargs[i].k = key

WithAuthor_Dropped(kwargs, default_user) == kwargs

\* kwargs after the default author was looked up: set when it is truthy
WithAuthor(kwargs, default_user) ==
    IF default_user.t = "str" /\ Truthy(default_user.s)
    THEN Append(kwargs, Opt(<<"p","o","s","t","_","a","u","t","h","o","r">>, PyStr(default_user.s)))
    ELSE kwargs

\* cmd = f"post create {' '.join(args)} --porcelain"
CreateCmd(kwargs) ==
    <<"p","o","s","t"," ","c","r","e","a","t","e"," ">>
        \o Join([i \in 1..Len(kwargs) |->
                    <<"-","-">> \o kwargs[i].k \o <<"=","'">>
                        \o EscapeValue(Str(kwargs[i].v)) \o <<"'">>], <<" ">>)
        \o <<" ","-","-","p","o","r","c","e","l","a","i","n">>

\* int(s) of a stripped text: an optional sign, then digits, single
\* underscores allowed between digits
ParseInt(s) ==
    LET signed == Len(s) > 0 /\ s[1] \in {"+", "-"}
        body == IF signed THEN Tail(s) ELSE s
        digits == SelectSeq(body, LAMBDA c : c # "_")
        wellFormed ==
            /\ Len(digits) > 0
            /\ \A i \in 1..Len(body) : IsDigit(body[i]) \/ body[i] = "_"
            /\ body[1] # "_" /\ body[Len(body)] # "_"
            /\ \A i \in 1..(Len(body) - 1) : ~(body[i] = "_" /\ body[i + 1] = "_")
    IN  IF Len(body) > 0 /\ wellFormed
        THEN LET n == ScanInt(digits, 1, 0).val.n
             IN  [ok |-> TRUE, n |-> IF signed /\ s[1] = "-" THEN 0 - n ELSE n]
        ELSE [ok |-> FALSE, n |-> 0]

create_post(t, kwargs, rs) ==
    LET Parsed_(all, id) ==
            IF id.ok
            THEN Ending(all, Return(IntVal(id.n)),
                        <<LogRec("info", <<"C","r","e","a","t","e","d"," ","p","o","s","t"," ","I","D",":"," ">> \o
                            (IF id.n < 0 THEN <<"-">> \o Decimal(0 - id.n) ELSE Decimal(id.n)))>>)
            ELSE Ending(all, Raise("ValueError", <<"i","n","v","a","l","i","d"," ","l","i","t","e","r","a","l"," ","f","o","r"," ","i","n","t","(",")"," ","w","i","t","h"," ","b","a","s","e"," ","1","0",":"," ">>
                                                     \o StrRepr(Strip(all.out.value.s))), <<>>)
        Sent(all) ==
            IF all.out.kind = "raise" THEN all
            ELSE Parsed_(all, ParseInt(Strip(all.out.value.s)))
        Built(lookup, kw) ==
            Sent(After(IF kw = kwargs THEN lookup
                       ELSE Ending(lookup, lookup.out,
                                   <<LogRec("debug", <<"U","s","i","n","g"," ","d","e","f","a","u","l","t"," ","a","u","t","h","o","r",":"," ">> \o lookup.out.value.s)>>),
                       _execute_wp(t, CreateCmd(kw), rs[Len(lookup.issued) + 1])))
        LookedUp(lookup) ==
            IF lookup.out.kind = "raise" THEN lookup
            ELSE Built(lookup, WithAuthor(kwargs, lookup.out.value))
    IN  IF HasKey(kwargs, <<"p","o","s","t","_","a","u","t","h","o","r">>) THEN LookedUp(Run(Return(NoneVal), <<>>, <<>>))
        ELSE LookedUp(get_default_user(t, rs))

----------------------------------------------------------------------------
(* list_categories(search), get_category_by_name(name) and                 *)
(* get_category_by_id(category_id)                                         *)

ListCategoriesCmd(search) ==
    <<"t","e","r","m"," ","l","i","s","t"," ","c","a","t","e","g","o","r","y"," ","-","-","f","o","r","m","a","t","=","j","s","o","n"," ","-","-","f","i","e","l","d","s","=","t","e","r","m","_","i","d",",","n","a","m","e",",","s","l","u","g",",","p","a","r","e","n","t",",","c","o","u","n","t">>
        \o (IF Truthy(search)
            THEN <<" ","-","-","s","e","a","r","c","h","=","\"">> \o Replace(search, "\"", <<"\\","\"">>) \o <<"\"">>
            ELSE <<>>)

\* result decoded, then logged: len() of a number raises
list_categories(t, search, r) ==
    LET Loaded(run, d) ==
            IF ~d.ok THEN Ending(run, JsonDecodeError, <<>>)
            ELSE IF d.val.j = "num" THEN Ending(run, Raise("TypeError", <<>>), <<>>)
            ELSE Ending(run, Return(JsonVal(d.val)),
                        <<LogRec("debug", <<"F","o","u","n","d"," ">> \o Decimal(Len(d.val.items)) \o <<" ","c","a","t","e","g","o","r","i","e","s">>)>>)
        Listed(run) ==
            IF run.out.kind = "raise" THEN run
            ELSE Then([d \in {JsonLoads(run.out.value.s)} |-> Loaded(run, d)])
    IN  Then([it \in {_execute_wp(t, ListCategoriesCmd(search), r)} |-> Listed(it)])

\* what `for cat in categories` goes through: the items of a list, the keys
\* of a dict, the characters of a str
Elements(v) ==
    CASE v.j = "arr" -> v.items
      [] v.j = "obj" -> [i \in 1..Len(v.items) |-> JsonStr(v.items[i].k)]
      [] OTHER -> [i \in 1..Len(v.items) |-> JsonStr(<<v.items[i]>>)]

LowerEquals_CaseSensitive(cat, key, name) ==
    IF cat.j # "obj" THEN [hit |-> FALSE, exc |-> "TypeError"]
    ELSE IF ~HasKey(cat.items, key) THEN [hit |-> FALSE, exc |-> "KeyError"]
    ELSE LET v == cat.items[CHOOSE i \in 1..Len(cat.items) : cat.items[i].k = key].v
         IN  IF v.j # "str" THEN [hit |-> FALSE, exc |-> "AttributeError"]
             ELSE [hit |-> v.items = name, exc |-> ""]

\* cat[key].lower() == name.lower(): hit is the comparison, exc what it raised
LowerEquals(cat, key, name) ==
    IF cat.j # "obj" THEN [hit |-> FALSE, exc |-> "TypeError"]
    ELSE IF ~HasKey(cat.items, key) THEN [hit |-> FALSE, exc |-> "KeyError"]
    ELSE LET v == cat.items[CHOOSE i \in 1..Len(cat.items) : cat.items[i].k = key].v
         IN  IF v.j # "str" THEN [hit |-> FALSE, exc |-> "AttributeError"]
             ELSE [hit |-> Lower(v.items) = Lower(name), exc |-> ""]

RECURSIVE FirstMatch(_, _, _)
\* the loop over the listed categories from the i-th on: the first whose
\* name or slug is name in lower case, None after the last
FirstMatch(cats, name, i) ==
    IF i > Len(cats) THEN Return(NoneVal)
    ELSE Then([byName \in {LowerEquals(cats[i], <<"n","a","m","e">>, name)} |-> IF byName.exc # "" THEN Raise(byName.exc, <<>>)
                ELSE IF byName.hit THEN Return(JsonVal(cats[i]))
                ELSE Then([bySlug \in {LowerEquals(cats[i], <<"s","l","u","g">>, name)} |-> IF bySlug.exc # "" THEN Raise(bySlug.exc, <<>>)
                            ELSE IF bySlug.hit THEN Return(JsonVal(cats[i]))
                            ELSE FirstMatch(cats, name, i + 1)])])

TermGetCmd(ref) ==
    <<"t","e","r","m"," ","g","e","t"," ","c","a","t","e","g","o","r","y"," ">> \o ref \o <<" ","-","-","f","o","r","m","a","t","=","j","s","o","n"," ","-","-","f","i","e","l","d","s","=","t","e","r","m","_","i","d",",","n","a","m","e",",","s","l","u","g",",","p","a","r","e","n","t">>

\* the try block shared by the two lookups: run the command, decode, log
TermGet(t, ref, r) ==
    LET Loaded(run, d) ==
            IF ~d.ok THEN Ending(run, JsonDecodeError, <<>>)
            ELSE Ending(run, Return(JsonVal(d.val)),
                        <<LogRec("debug", <<"F","o","u","n","d"," ","c","a","t","e","g","o","r","y",":"," ">> \o PyRepr(d.val))>>)
        Got(run) ==
            IF run.out.kind = "raise" THEN run
            ELSE Then([d \in {JsonLoads(run.out.value.s)} |-> Loaded(run, d)])
    IN  Then([it \in {_execute_wp(t, TermGetCmd(ref), r)} |-> Got(it)])

get_category_by_name(t, name, rs) ==
    LET Searched(listed, found) ==
            Ending(listed, found,
                   IF found = Return(NoneVal)
                   THEN <<LogRec("warning", <<"C","a","t","e","g","o","r","y"," ","'">> \o name \o <<"'"," ","n","o","t"," ","f","o","u","n","d">>)>>
                   ELSE <<>>)
        Listed(listed) ==
            IF listed.out.kind = "raise" THEN listed
            ELSE Searched(listed, FirstMatch(Elements(listed.out.value.v), name, 1))
        Got(exact) ==
            IF ~(exact.out.kind = "raise" /\ exact.out.exc = "WPCLIError") THEN exact
            ELSE Listed(After(exact, list_categories(t, name, rs[2])))
    IN  Got(TermGet(t, <<"'">> \o name \o <<"'">>, rs[1]))

get_category_by_id(t, category_id, r) ==
    LET Got(exact) ==
            IF ~(exact.out.kind = "raise" /\ exact.out.exc = "WPCLIError") THEN exact
            ELSE Ending(exact, Return(NoneVal),
                        <<LogRec("warning", <<"C","a","t","e","g","o","r","y"," ","I","D"," ">> \o Decimal(category_id)
                            \o <<" ","n","o","t"," ","f","o","u","n","d">>)>>)
    IN  Got(TermGet(t, Decimal(category_id), r))

----------------------------------------------------------------------------
(* post_exists, run_cron, set_config_param, delete_term: one command each, *)
(* answered with a boolean.                                                *)

post_exists_Propagates(t, post_id, r) ==
    LET Checked(run) ==
            IF run.out.kind = "raise" THEN run
            ELSE Ending(run, Return(TrueVal),
                        <<LogRec("debug", <<"P","o","s","t"," ">> \o Decimal(post_id) \o <<" ","e","x","i","s","t","s">>)>>)
    IN  Checked(_execute_wp(t, <<"p","o","s","t"," ","e","x","i","s","t","s"," ">> \o Decimal(post_id), r))

post_exists(t, post_id, r) ==
    LET Checked(run) ==
            IF run.out.kind = "raise" /\ run.out.exc = "WPCLIError"
            THEN Ending(run, Return(FalseVal),
                        <<LogRec("debug", <<"P","o","s","t"," ">> \o Decimal(post_id) \o <<" ","d","o","e","s"," ","n","o","t"," ","e","x","i","s","t">>)>>)
            ELSE IF run.out.kind = "raise" THEN run
            ELSE Ending(run, Return(TrueVal),
                        <<LogRec("debug", <<"P","o","s","t"," ">> \o Decimal(post_id) \o <<" ","e","x","i","s","t","s">>)>>)
    IN  Checked(_execute_wp(t, <<"p","o","s","t"," ","e","x","i","s","t","s"," ">> \o Decimal(post_id), r))

run_cron(t, r) ==
    LET Ran(run) ==
            IF run.out.kind = "raise" /\ run.out.exc = "WPCLIError"
            THEN Ending(run, Return(FalseVal),
                        <<LogRec("error", <<"F","a","i","l","e","d"," ","t","o"," ","r","u","n"," ","c","r","o","n"," ","e","v","e","n","t","s",":"," ">> \o StrOfError(run.out))>>)
            ELSE IF run.out.kind = "raise" THEN run
            ELSE Ending(run, Return(TrueVal), <<LogRec("info", <<"E","x","e","c","u","t","e","d"," ","c","r","o","n"," ","e","v","e","n","t","s">>)>>)
    IN  Ran(_execute_wp(t, <<"c","r","o","n"," ","e","v","e","n","t"," ","r","u","n"," ","-","-","d","u","e","-","n","o","w">>, r))

set_config_param(t, param, value, r) ==
    LET escaped_value == EscapeValue(value)
        Set(run) ==
            IF run.out.kind = "raise" /\ run.out.exc = "WPCLIError"
            THEN Ending(run, Return(FalseVal),
                        <<LogRec("error", <<"F","a","i","l","e","d"," ","t","o"," ","s","e","t"," ","c","o","n","f","i","g"," ">> \o param \o <<":"," ">>
                            \o StrOfError(run.out))>>)
            ELSE IF run.out.kind = "raise" THEN run
            ELSE Ending(run, Return(TrueVal),
                        <<LogRec("info", <<"S","e","t"," ","c","o","n","f","i","g"," ">> \o param \o <<" ","="," ">> \o value)>>)
    IN  Set(_execute_wp(t, <<"c","o","n","f","i","g"," ","s","e","t"," ">> \o param \o <<" ","'">> \o escaped_value \o <<"'">>, r))

delete_term(t, taxonomy, term_id, r) ==
    LET Deleted(run) ==
            IF run.out.kind = "raise" /\ run.out.exc = "WPCLIError"
            THEN Ending(run, Return(FalseVal),
                        <<LogRec("error", <<"F","a","i","l","e","d"," ","t","o"," ","d","e","l","e","t","e"," ","t","e","r","m",":"," ">> \o StrOfError(run.out))>>)
            ELSE IF run.out.kind = "raise" THEN run
            ELSE Ending(run, Return(TrueVal),
                        <<LogRec("info", <<"D","e","l","e","t","e","d"," ","t","e","r","m"," ","'">> \o term_id \o <<"'"," ","f","r","o","m"," ","t","a","x","o","n","o","m","y"," ","'">>
                            \o taxonomy \o <<"'">>)>>)
    IN  Deleted(_execute_wp(t, <<"t","e","r","m"," ","d","e","l","e","t","e"," ">> \o taxonomy \o <<" ">> \o term_id, r))

----------------------------------------------------------------------------
(* _create_from_file (cli/commands/create.py): the loop over the posts of  *)
(* a file, run against the adapter once it is constructed.                 *)

\* post.get(key, default) on a post of the file
PostGet(post, key, default) ==
    IF HasKey(post, key)
    THEN post[CHOOSE i \in 1..Len(post) : post[i].k = key].v
    ELSE PyStr(default)

\* the keyword arguments of the i-th create_post call
PostKwargs(post, i) ==
    << Opt(<<"p","o","s","t","_","t","i","t","l","e">>, PostGet(post, <<"t","i","t","l","e">>, <<"U","n","t","i","t","l","e","d"," ","P","o","s","t"," ">> \o Decimal(i))),
       Opt(<<"p","o","s","t","_","c","o","n","t","e","n","t">>, PostGet(post, <<"c","o","n","t","e","n","t">>, <<>>)),
       Opt(<<"p","o","s","t","_","s","t","a","t","u","s">>, PostGet(post, <<"s","t","a","t","u","s">>, <<"p","u","b","l","i","s","h">>)),
       Opt(<<"p","o","s","t","_","t","y","p","e">>, PostGet(post, <<"t","y","p","e">>, <<"p","o","s","t">>)) >>

\* what the loop has done so far
Batch(ids, lines, answers, logs) ==
    [created_ids |-> ids, issued |-> lines, reply |-> answers, logged |-> logs]

RECURSIVE CreateAll_StopAtFailure(_, _, _, _, _)
CreateAll_StopAtFailure(t, posts, rss, i, done) ==
    LET Item(run) ==
            IF run.out.kind = "return"
            THEN CreateAll_StopAtFailure(t, posts, rss, i + 1,
                     Batch(Append(done.created_ids, run.out.value.v.n),
                           done.issued \o run.issued,
                           done.reply \o SubSeq(rss[i], 1, Len(run.issued)),
                           done.logged \o run.logged))
            ELSE Batch(done.created_ids,
                       done.issued \o run.issued,
                       done.reply \o SubSeq(rss[i], 1, Len(run.issued)),
                       done.logged \o run.logged \o
                           <<LogRec("error", <<"F","a","i","l","e","d"," ","t","o"," ","c","r","e","a","t","e"," ","p","o","s","t",":"," ">> \o StrOfError(run.out))>>)
    IN  IF i > Len(posts) THEN done
        ELSE Item(create_post(t, PostKwargs(posts[i], i), rss[i]))

RECURSIVE CreateAll(_, _, _, _, _)
\* the loop from the i-th post on: a post that is created adds its id, a
\* post whose create_post raises is logged and the loop goes on
CreateAll(t, posts, rss, i, done) ==
    LET Item(run) ==
            IF run.out.kind = "return"
            THEN CreateAll(t, posts, rss, i + 1,
                     Batch(Append(done.created_ids, run.out.value.v.n),
                           done.issued \o run.issued,
                           done.reply \o SubSeq(rss[i], 1, Len(run.issued)),
                           done.logged \o run.logged))
            ELSE CreateAll(t, posts, rss, i + 1,
                     Batch(done.created_ids,
                           done.issued \o run.issued,
                           done.reply \o SubSeq(rss[i], 1, Len(run.issued)),
                           done.logged \o run.logged \o
                               <<LogRec("error", <<"F","a","i","l","e","d"," ","t","o"," ","c","r","e","a","t","e"," ","p","o","s","t",":"," ">> \o StrOfError(run.out))>>))
    IN  IF i > Len(posts) THEN done
        ELSE Item(create_post(t, PostKwargs(posts[i], i), rss[i]))

\* the console line that reports the ids (the lines with check marks are not
\* modelled)
PostIdsLine(ids) ==
    <<"P","o","s","t"," ","I","D","s",":"," ">> \o Join([i \in 1..Len(ids) |-> Decimal(ids[i])], <<",", " ">>) \o <<"\n">>

\* the whole run: nothing is attempted for a file without posts
_create_from_file(t, posts, rss) ==
    LET Report(done) == [done |-> done, printed |-> <<PostIdsLine(done.created_ids)>>]
    IN  IF posts = <<>>
        THEN [done |-> Batch(<<>>, <<>>, <<>>, <<>>),
              printed |-> << <<"E","r","r","o","r",":"," ","N","o"," ","p","o","s","t","s"," ","f","o","u","n","d"," ","i","n"," ","f","i","l","e">> >>]
        ELSE Report(CreateAll(t, posts, rss, 1, Batch(<<>>, <<>>, <<>>, <<>>)))

----------------------------------------------------------------------------
(* The command handlers (cli/commands): each opens the connection, builds  *)
(* the adapter on it, which verifies the installation, makes its adapter   *)
(* calls and leaves the with block; a failure is caught at the top.        *)

\* WPClient._verify_installation against the executor's answers vs: three
\* existence tests and a version call, sent to ssh.execute as they are
_verify_installation(t, vs) ==
    LET Echo(test) == test \o <<" ","&","&"," ","e","c","h","o"," ","'","e","x","i","s","t","s","'"," ","|","|"," ","e","c","h","o"," ","'","n","o","t"," ","f","o","u","n","d","'">>
        lines == << Echo(<<"t","e","s","t"," ","-","f"," ">> \o t.wp_cli),
                    Echo(<<"t","e","s","t"," ","-","d"," ">> \o t.wp_path),
                    Echo(<<"t","e","s","t"," ","-","f"," ">> \o t.wp_path \o <<"/","w","p","-","c","o","n","f","i","g",".","p","h","p">>),
                    <<"c","d"," ">> \o t.wp_path \o <<" ","&","&"," ">> \o t.php_bin \o <<" ">> \o t.wp_cli \o <<" ","-","-","v","e","r","s","i","o","n">> >>
        missing ==
            << <<"W","P","-","C","L","I"," ","n","o","t"," ","f","o","u","n","d"," ","a","t"," ">> \o t.wp_cli
                 \o <<"\n","\n","I","n","s","t","a","l","l","a","t","i","o","n"," ","i","n","s","t","r","u","c","t","i","o","n","s",":","\n","1","."," ","D","o","w","n","l","o","a","d",":"," ","c","u","r","l"," ","-","O"," ","h","t","t","p","s",":","/","/","r","a","w",".","g","i","t","h","u","b","u","s","e","r","c","o","n","t","e","n","t",".","c","o","m","/","w","p","-","c","l","i","/","b","u","i","l","d","s","/","g","h","-","p","a","g","e","s","/","p","h","a","r","/","w","p","-","c","l","i",".","p","h","a","r","\n","2","."," ","M","a","k","e"," ","e","x","e","c","u","t","a","b","l","e",":"," ","c","h","m","o","d"," ","+","x"," ","w","p","-","c","l","i",".","p","h","a","r","\n","3","."," ","M","o","v","e"," ","t","o"," ","p","a","t","h",":"," ","s","u","d","o"," ","m","v"," ","w","p","-","c","l","i",".","p","h","a","r"," ">>
                 \o t.wp_cli \o <<"\n","\n","O","r"," ","s","p","e","c","i","f","y"," ","c","o","r","r","e","c","t"," ","p","a","t","h"," ","w","i","t","h"," ","-","-","w","p","-","c","l","i"," ","o","p","t","i","o","n">>,
               <<"W","o","r","d","P","r","e","s","s"," ","i","n","s","t","a","l","l","a","t","i","o","n"," ","n","o","t"," ","f","o","u","n","d"," ","a","t"," ">> \o t.wp_path
                 \o <<"\n","P","l","e","a","s","e"," ","v","e","r","i","f","y"," ","t","h","e"," ","W","o","r","d","P","r","e","s","s"," ","p","a","t","h"," ","i","s"," ","c","o","r","r","e","c","t",".">>,
               <<"w","p","-","c","o","n","f","i","g",".","p","h","p"," ","n","o","t"," ","f","o","u","n","d"," ","i","n"," ">> \o t.wp_path
                 \o <<"\n","T","h","i","s"," ","d","o","e","s","n","'","t"," ","a","p","p","e","a","r"," ","t","o"," ","b","e"," ","a"," ","v","a","l","i","d"," ","W","o","r","d","P","r","e","s","s"," ","i","n","s","t","a","l","l","a","t","i","o","n",".">> >>
        Unreachable(i) ==
            Run(Return(NoneVal), SubSeq(lines, 1, i),
                <<LogRec("warning", <<"C","o","u","l","d"," ","n","o","t"," ","v","e","r","i","f","y"," ","W","P","-","C","L","I"," ","i","n","s","t","a","l","l","a","t","i","o","n",":"," ">> \o vs[i].msg)>>)
        Version(r) ==
            IF r.raises THEN Unreachable(4)
            ELSE IF Truthy(r.stderr)
                    /\ (\/ Contains(Lower(r.stderr), PatCommandNotFound)
                        \/ Contains(Lower(r.stderr), <<"n","o"," ","s","u","c","h"," ","f","i","l","e">>))
            THEN Run(Raise("WPCLIError",
                           <<"F","a","i","l","e","d"," ","t","o"," ","e","x","e","c","u","t","e"," ","W","P","-","C","L","I","\n","E","r","r","o","r",":"," ">> \o r.stderr
                             \o <<"\n","\n","P","o","s","s","i","b","l","e"," ","i","s","s","u","e","s",":","\n","1","."," ","P","H","P"," ","b","i","n","a","r","y"," ","n","o","t"," ","f","o","u","n","d",":"," ">> \o t.php_bin
                             \o <<"\n","2","."," ","W","P","-","C","L","I"," ","n","o","t"," ","e","x","e","c","u","t","a","b","l","e",":"," ">> \o t.wp_cli
                             \o <<"\n","3","."," ","M","i","s","s","i","n","g"," ","P","H","P"," ","e","x","t","e","n","s","i","o","n","s"," ","(","m","y","s","q","l",","," ","m","y","s","q","l","i",")","\n","\n","F","o","r"," ","P","l","e","s","k"," ","s","e","r","v","e","r","s",","," ","t","r","y",":"," ","/","o","p","t","/","p","l","e","s","k","/","p","h","p","/","8",".","3","/","b","i","n","/","p","h","p">>),
                     lines, <<>>)
            ELSE Run(Return(NoneVal), lines,
                     << IF Contains(r.stdout, <<"W","P","-","C","L","I">>)
                        THEN LogRec("info", <<"W","P","-","C","L","I"," ","v","e","r","i","f","i","e","d",":"," ">> \o Strip(r.stdout))
                        ELSE LogRec("warning",
                                    <<"W","P","-","C","L","I"," ","v","e","r","i","f","i","c","a","t","i","o","n"," ","r","e","t","u","r","n","e","d"," ","u","n","e","x","p","e","c","t","e","d"," ","o","u","t","p","u","t",":"," ">> \o r.stdout) >>)
        Tests(bad) ==
            IF bad = {} THEN Version(vs[4])
            ELSE LET i == CHOOSE b \in bad : \A o \in bad : b <= o
                 IN  IF vs[i].raises THEN Unreachable(i)
                     ELSE Run(Raise("WPCLIError", missing[i]), SubSeq(lines, 1, i), <<>>)
    IN  Tests({i \in 1..3 : vs[i].raises \/ Contains(vs[i].stdout, <<"n","o","t"," ","f","o","u","n","d">>)})

\* WPClient(ssh, wp_path, php_bin, wp_cli): the fields are stored, then the
\* installation is verified
WPClient(t, vs) ==
    LET Built(verify) ==
            Run(verify.out, verify.issued,
                <<LogRec("debug", <<"I","n","i","t","i","a","l","i","z","e","d"," ","W","P","C","l","i","e","n","t"," ","f","o","r"," ">> \o t.wp_path)>> \o verify.logged)
    IN  Built(_verify_installation(t, vs))

Scoped_LeakOnFailure(connects, built, body) ==
    LET Left(out, lines, wp_lines, logs, prints) ==
            [out |-> out, issued |-> wp_lines, logged |-> logs, printed |-> prints,
             session |-> <<[ev |-> "connect", line |-> <<>>]>>
                            \o [i \in 1..Len(lines) |-> [ev |-> "execute", line |-> lines[i]]]
                            \o (IF out.kind = "raise" THEN <<[ev |-> "raised", line |-> <<>>]>>
                                ELSE <<[ev |-> "disconnect", line |-> <<>>]>>)]
    IN  IF ~connects
        THEN [out |-> Raise("SSHConnectionError", <<"C","o","n","n","e","c","t","i","o","n"," ","r","e","f","u","s","e","d">>), issued |-> <<>>,
              logged |-> <<>>, printed |-> <<>>, session |-> <<[ev |-> "connect_failed", line |-> <<>>]>>]
        ELSE IF built.out.kind = "raise"
        THEN Left(built.out, built.issued, <<>>, built.logged, <<>>)
        ELSE Left(body.out, built.issued \o body.issued, body.issued,
                  built.logged \o body.logged, body.printed)

\* with SSHManager(...) as ssh: wp = WPClient(ssh, ...); <body>.  The
\* connection is opened on entry, when that succeeds the block runs, and the
\* connection is closed when the block is left, by its end, by a return or
\* by an exception.  built is the construction of the adapter, body what the
\* rest of the block does: its outcome, the lines of its adapter calls, its
\* log records and its console lines.
Scoped(connects, built, body) ==
    LET Left(out, lines, wp_lines, logs, prints) ==
            [out |-> out, issued |-> wp_lines, logged |-> logs, printed |-> prints,
             session |-> <<[ev |-> "connect", line |-> <<>>]>>
                            \o [i \in 1..Len(lines) |-> [ev |-> "execute", line |-> lines[i]]]
                            \o (IF out.kind = "raise" THEN <<[ev |-> "raised", line |-> <<>>]>> ELSE <<>>)
                            \o <<[ev |-> "disconnect", line |-> <<>>]>>]
    IN  IF ~connects
        THEN [out |-> Raise("SSHConnectionError", <<"C","o","n","n","e","c","t","i","o","n"," ","r","e","f","u","s","e","d">>), issued |-> <<>>,
              logged |-> <<>>, printed |-> <<>>, session |-> <<[ev |-> "connect_failed", line |-> <<>>]>>]
        ELSE IF built.out.kind = "raise"
        THEN Left(built.out, built.issued, <<>>, built.logged, <<>>)
        ELSE Left(body.out, built.issued \o body.issued, body.issued,
                  built.logged \o body.logged, body.printed)

Caught_Silent(done, failed) ==
    IF done.out.kind # "raise" THEN done
    ELSE [done EXCEPT
            !.out = Raise("Abort", <<>>),
            !.session = @ \o <<[ev |-> "caught", line |-> <<>>]>>]

\* except Exception as e: the message is printed and logged, and the command
\* aborts
Caught(done, failed) ==
    IF done.out.kind # "raise" THEN done
    ELSE [done EXCEPT
            !.out = Raise("Abort", <<>>),
            !.printed = @ \o << <<"[","r","e","d","]","E","r","r","o","r",":"," ">> \o StrOfError(done.out) \o <<"[","/","r","e","d","]">> >>,
            !.logged = @ \o <<LogRec("error", failed \o StrOfError(done.out))>>,
            !.session = @ \o <<[ev |-> "caught", line |-> <<>>]>>]

\* WPClient.activate_theme(theme)
activate_theme(t, theme, r) ==
    LET Activated(run) ==
            IF run.out.kind = "raise" THEN run
            ELSE Ending(run, Return(TrueVal), <<LogRec("info", <<"A","c","t","i","v","a","t","e","d"," ","t","h","e","m","e"," ">> \o theme)>>)
    IN  Activated(_execute_wp(t, <<"t","h","e","m","e"," ","a","c","t","i","v","a","t","e"," ">> \o theme, r))

\* the theme activate command (cli/commands/theme.py); its success line is
\* drawn with a check mark and is not among the modelled console lines
theme_activate(t, theme_slug, connects, vs, r) ==
    LET Body(run) ==
            [out |-> IF run.out.kind = "raise" THEN run.out ELSE Return(NoneVal),
             issued |-> run.issued, logged |-> run.logged, printed |-> <<>>]
    IN  Caught(Scoped(connects, WPClient(t, vs), Body(activate_theme(t, theme_slug, r))),
               <<"A","c","t","i","v","a","t","e"," ","t","h","e","m","e"," ","f","a","i","l","e","d",":"," ">>)

----------------------------------------------------------------------------
\* _parse_category_input(category_str, category_id_str, wp): the ids given,
\* or the term ids of the categories named, looked up one after another; a
\* TypeError is modelled without its message, which the interpreter words
_parse_category_input(t, category_str, category_id_str, rs) ==
    LET Ids(ns) == Return(JsonVal(JsonArr([i \in 1..Len(ns) |-> JsonNum(ns[i])])))
        Given(parsed) ==
            IF \A i \in 1..Len(parsed) : parsed[i].ok
            THEN Run(Ids([i \in 1..Len(parsed) |-> parsed[i].n]), <<>>, <<>>)
            ELSE Run(Raise("ClickException",
                           <<"I","n","v","a","l","i","d"," ","c","a","t","e","g","o","r","y"," ","I","D"," ","f","o","r","m","a","t","."," ","M","u","s","t"," ","b","e"," ","c","o","m","m","a","-","s","e","p","a","r","a","t","e","d"," ","i","n","t","e","g","e","r","s",".">>),
                     <<>>, <<>>)
        \* int(v)
        ToInt(v) ==
            IF v.j = "num" THEN [exc |-> "", msg |-> <<>>, n |-> v.n]
            ELSE IF v.j # "str" THEN [exc |-> "TypeError", msg |-> <<>>, n |-> 0]
            ELSE IF ParseInt(v.items).ok
            THEN [exc |-> "", msg |-> <<>>, n |-> ParseInt(v.items).n]
            ELSE [exc |-> "ValueError",
                  msg |-> <<"i","n","v","a","l","i","d"," ","l","i","t","e","r","a","l"," ","f","o","r"," ","i","n","t","(",")"," ","w","i","t","h"," ","b","a","s","e"," ","1","0",":"," ">> \o StrRepr(v.items),
                  n |-> 0]
        \* int(cat['term_id'])
        TermId(cat) ==
            IF cat.j # "obj" THEN [exc |-> "TypeError", msg |-> <<>>, n |-> 0]
            ELSE IF \A m \in 1..Len(cat.items) : cat.items[m].k # <<"t","e","r","m","_","i","d">>
            THEN [exc |-> "KeyError", msg |-> <<"'","t","e","r","m","_","i","d","'">>, n |-> 0]
            ELSE ToInt(cat.items[CHOOSE m \in 1..Len(cat.items) : cat.items[m].k = <<"t","e","r","m","_","i","d">>].v)
        RECURSIVE Named(_, _, _)
        \* after the lookup of the first of names: done holds the calls so far
        Found(names, ids, done, term_id) ==
            IF done.out.kind = "raise" THEN done
            ELSE IF done.out.value = NoneVal \/ ~JsonTruthy(done.out.value.v)
            THEN Ending(done, Raise("ClickException",
                                    <<"C","a","t","e","g","o","r","y"," ","'">> \o Strip(Head(names)) \o <<"'"," ","n","o","t"," ","f","o","u","n","d">>), <<>>)
            ELSE IF term_id.exc # "" THEN Ending(done, Raise(term_id.exc, term_id.msg), <<>>)
            ELSE Named(Tail(names), Append(ids, term_id.n), done)
        Named(names, ids, done) ==
            IF names = <<>> THEN Ending(done, Ids(ids), <<>>)
            ELSE Then([cat \in {get_category_by_name(t, Strip(Head(names)),
                                           SubSeq(rs, Len(done.issued) + 1, Len(rs)))} |-> Then([got \in {[done |-> After(done, cat),
                              term_id |-> IF cat.out.kind = "raise" \/ cat.out.value = NoneVal
                                          THEN [exc |-> "", msg |-> <<>>, n |-> 0]
                                          ELSE TermId(cat.out.value.v)]} |-> Found(names, ids, got.done, got.term_id)])])
    IN  IF Truthy(category_id_str)
        THEN Then([fields \in {Split(category_id_str, ",")} |-> Given([i \in 1..Len(fields) |-> ParseInt(Strip(fields[i]))])])
        ELSE IF Truthy(category_str)
        THEN Then([names \in {Split(category_str, ",")} |-> Named(names, <<>>, Run(Return(NoneVal), <<>>, <<>>))])
        ELSE Run(Ids(<<>>), <<>>, <<>>)

\* _create_single_post (cli/commands/create.py).  Among the console lines,
\* those drawn with a check mark are not modelled.
_create_single_post(t, title, content, status, post_type, category, category_id, connects, vs, rs) ==
    LET Rest(run) == SubSeq(rs, Len(run.issued) + 1, Len(rs))
        Left(run, out, prints) ==
            [out |-> out, issued |-> run.issued, logged |-> run.logged, printed |-> prints]
        summary == << <<"T","i","t","l","e",":"," ">> \o title, <<"S","t","a","t","u","s",":"," ">> \o status >>
        \* cat['name'] of a category looked up for display
        NameOf(cat) ==
            IF cat.j # "obj" THEN [exc |-> "TypeError", msg |-> <<>>, v |-> cat]
            ELSE IF \A m \in 1..Len(cat.items) : cat.items[m].k # <<"n","a","m","e">>
            THEN [exc |-> "KeyError", msg |-> <<"'","n","a","m","e","'">>, v |-> cat]
            ELSE [exc |-> "", msg |-> <<>>,
                  v |-> cat.items[CHOOSE m \in 1..Len(cat.items) : cat.items[m].k = <<"n","a","m","e">>].v]
        \* the lines printed last: ', '.join(category_names) takes strings
        Shown(run, names) ==
            IF \E i \in 1..Len(names) : names[i].j # "str"
            THEN Left(run, Raise("TypeError", <<>>), summary)
            ELSE Left(run, Return(NoneVal),
                      summary \o << <<"C","a","t","e","g","o","r","i","e","s",":"," ">>
                                      \o Join([i \in 1..Len(names) |-> names[i].items], <<","," ">>)
                                      \o <<"\n">> >>)
        RECURSIVE Display(_, _, _)
        \* after the lookup of the first of ids: done holds the calls so far
        Looked(ids, names, done, name) ==
            IF done.out.kind = "raise" THEN Left(done, done.out, <<>>)
            ELSE IF done.out.value = NoneVal \/ ~JsonTruthy(done.out.value.v)
            THEN Display(Tail(ids), names, done)
            ELSE IF name.exc # "" THEN Left(done, Raise(name.exc, name.msg), <<>>)
            ELSE Display(Tail(ids), Append(names, name.v), done)
        Display(ids, names, done) ==
            IF ids = <<>> THEN Shown(done, names)
            ELSE Then([cat \in {get_category_by_id(t, Head(ids), Rest(done)[1])} |-> Then([got \in {[done |-> After(done, cat),
                              name |-> IF cat.out.kind = "raise" \/ cat.out.value = NoneVal
                                       THEN [exc |-> "", msg |-> <<>>, v |-> JsonNum(0)]
                                       ELSE NameOf(cat.out.value.v)]} |-> Looked(ids, names, got.done, got.name)])])
        Plain(run) == Left(run, Return(NoneVal), << summary[1], summary[2] \o <<"\n">> >>)
        Assigned(ids, run) ==
            IF run.out.kind = "raise" THEN Left(run, run.out, <<>>)
            ELSE Display(ids, <<>>, run)
        Categorised(post_id, run) ==
            IF run.out.kind = "raise" THEN Left(run, run.out, <<>>)
            ELSE IF run.out.value.v.items = <<>> THEN Plain(run)
            ELSE Then([ids \in {[i \in 1..Len(run.out.value.v.items) |-> run.out.value.v.items[i].n]} |-> Then([set \in {After(run, set_post_categories(t, post_id, ids, Rest(run)))} |-> Assigned(ids, set)])])
        Created(run) ==
            IF run.out.kind = "raise" THEN Left(run, run.out, <<>>)
            ELSE IF Truthy(category) \/ Truthy(category_id)
            THEN Then([parse \in {After(run, _parse_category_input(t, category, category_id, Rest(run)))} |-> Categorised(run.out.value.v.n, parse)])
            ELSE Plain(run)
        Opened(done) ==
            [done EXCEPT !.printed = << <<"\n","[","y","e","l","l","o","w","]","C","r","e","a","t","i","n","g"," ">> \o post_type \o <<".",".",".","[","/","y","e","l","l","o","w","]">> >> \o @]
        Block(built, body) == Then([it \in {Scoped(connects, built, body)} |-> Opened(it)])
    IN  IF ~Truthy(content)
        THEN [out |-> Raise("Abort", <<>>), issued |-> <<>>, logged |-> <<>>,
              printed |-> << <<"[","r","e","d","]","E","r","r","o","r",":"," ","-","-","c","o","n","t","e","n","t"," ","i","s"," ","r","e","q","u","i","r","e","d","[","/","r","e","d","]">> >>, session |-> <<>>]
        ELSE Then([both \in {[built |-> WPClient(t, vs),
                   body |-> Then([it \in {create_post(t,
                                     << Opt(<<"p","o","s","t","_","t","i","t","l","e">>, PyStr(title)),
                                        Opt(<<"p","o","s","t","_","c","o","n","t","e","n","t">>, PyStr(content)),
                                        Opt(<<"p","o","s","t","_","s","t","a","t","u","s">>, PyStr(status)),
                                        Opt(<<"p","o","s","t","_","t","y","p","e">>, PyStr(post_type)) >>, rs)} |-> Created(it)])]} |-> Block(both.built, both.body)])

\* create_command (cli/commands/create.py) for a title that names no file
create_command(t, title, content, status, post_type, category, category_id, connects, vs, rs) ==
    LET Handled(done) == Caught(done, <<"C","r","e","a","t","e"," ","c","o","m","m","a","n","d"," ","f","a","i","l","e","d",":"," ">>)
    IN  Then([it \in {_create_single_post(t, title, content, status, post_type, category, category_id,
                                 connects, vs, rs)} |-> Handled(it)])

----------------------------------------------------------------------------
(* The update command (cli/commands/update.py).                            *)

RECURSIVE ReplaceAll(_, _, _)
\* s.replace(old, new) for a non-empty old
ReplaceAll(s, old, new) ==
    IF Len(s) < Len(old) THEN s
    ELSE IF SubSeq(s, 1, Len(old)) = old
    THEN new \o ReplaceAll(SubSeq(s, Len(old) + 1, Len(s)), old, new)
    ELSE <<Head(s)>> \o ReplaceAll(Tail(s), old, new)

\* WPClient.update_post(post_id, **kwargs)
update_post(t, post_id, kwargs, r) ==
    LET Updated(run) ==
            IF run.out.kind = "raise" THEN run
            ELSE Ending(run, Return(TrueVal), <<LogRec("info", <<"U","p","d","a","t","e","d"," ","p","o","s","t"," ","I","D",":"," ">> \o Decimal(post_id))>>)
    IN  Updated(_execute_wp(t, <<"p","o","s","t"," ","u","p","d","a","t","e"," ">> \o Decimal(post_id) \o <<" ">>
                                \o Join([i \in 1..Len(kwargs) |->
                                            <<"-","-">> \o kwargs[i].k \o <<"=","'">>
                                                \o EscapeValue(Str(kwargs[i].v)) \o <<"'">>], <<" ">>), r))

\* _show_preview(old_content, new_content): the lines that differ, among the
\* lines both contents have, and what is printed about the first five
_show_preview(old_content, new_content) ==
    LET Zip(old_lines, new_lines) ==
            [i \in 1..(IF Len(old_lines) < Len(new_lines) THEN Len(old_lines) ELSE Len(new_lines)) |->
                [n |-> i, old |-> old_lines[i], new |-> new_lines[i]]]
        Differs(c) == c.old # c.new
        Lines(c) ==
            << <<"[","b","o","l","d","]","L","i","n","e"," ">> \o Decimal(c.n) \o <<":","[","/","b","o","l","d","]">>,
               <<" "," ","[","r","e","d","]","-"," ">> \o Strip(c.old) \o <<"[","/","r","e","d","]">>,
               <<" "," ","[","g","r","e","e","n","]","+"," ">> \o Strip(c.new) \o <<"[","/","g","r","e","e","n","]","\n">> >>
        Shown(changes, first) ==
            [changes |-> changes,
             printed |->
                IF changes = <<>> THEN <<>>
                ELSE << <<"\n","[","b","o","l","d"," ","c","y","a","n","]","C","h","a","n","g","e","s"," ","t","o"," ","b","e"," ","m","a","d","e",":"," ">> \o Decimal(Len(changes)) \o <<"[","/","b","o","l","d"," ","c","y","a","n","]","\n">> >>
                        \o [k \in 1..(3 * first) |-> Lines(changes[((k - 1) \div 3) + 1])[((k - 1) % 3) + 1]]
                        \o (IF Len(changes) > 5
                            THEN << <<"[","d","i","m","]",".",".","."," ","a","n","d"," ">> \o Decimal(Len(changes) - 5) \o <<" ","m","o","r","e"," ","c","h","a","n","g","e","s","[","/","d","i","m","]","\n">> >>
                            ELSE <<>>)]
        Found(changes) == Shown(changes, IF Len(changes) > 5 THEN 5 ELSE Len(changes))
    IN  Found(SelectSeq(Zip(Split(old_content, "\n"), Split(new_content, "\n")), Differs))

\* update_command (cli/commands/update.py).  line and nth are 0 when the
\* option is not given; confirm is the user's answer to the question asked
\* before the content is written; edits tells whether the content editor
\* of --line and --nth, whose code is not at hand, replaces the text or
\* leaves the content as it is.  Among the console lines, those drawn with
\* a check mark are not modelled.
update_command(t, post_id, find_text, replace_text, line, nth, preview, category, category_id, confirm, edits, connects, vs, rs) ==
    LET Rest(run) == SubSeq(rs, Len(run.issued) + 1, Len(rs))
        Left(run, out, prints) ==
            [out |-> out, issued |-> run.issued, logged |-> run.logged, printed |-> prints]
        \* post_data.get('post_title', 'N/A') in the line printed last
        Title(post_data) ==
            <<"T","i","t","l","e",":"," ">>
                \o (IF \A m \in 1..Len(post_data.items) : post_data.items[m].k # <<"p","o","s","t","_","t","i","t","l","e">>
                    THEN <<"N","/","A">>
                    ELSE Then([v \in {post_data.items[CHOOSE m \in 1..Len(post_data.items) :
                                                post_data.items[m].k = <<"p","o","s","t","_","t","i","t","l","e">>].v} |-> IF v.j = "str" THEN v.items ELSE PyRepr(v)]))
        NoGet(post_data) ==
            Raise("AttributeError",
                  <<"'">> \o (CASE post_data.j = "arr" -> <<"l","i","s","t">>
                                [] post_data.j = "num" -> <<"i","n","t">>
                                [] OTHER -> <<"s","t","r">>)
                      \o <<"'"," ","o","b","j","e","c","t"," ","h","a","s"," ","n","o"," ","a","t","t","r","i","b","u","t","e"," ","'","g","e","t","'">>)
        Titled(post_data, run, prints) ==
            IF post_data.j # "obj" THEN Left(run, NoGet(post_data), prints)
            ELSE Left(run, Return(NoneVal), prints \o << Title(post_data) \o <<"\n">> >>)
        \* cat['name'] of a category looked up for display
        NameOf(cat) ==
            IF cat.j # "obj" THEN [exc |-> "TypeError", msg |-> <<>>, v |-> cat]
            ELSE IF \A m \in 1..Len(cat.items) : cat.items[m].k # <<"n","a","m","e">>
            THEN [exc |-> "KeyError", msg |-> <<"'","n","a","m","e","'">>, v |-> cat]
            ELSE [exc |-> "", msg |-> <<>>,
                  v |-> cat.items[CHOOSE m \in 1..Len(cat.items) : cat.items[m].k = <<"n","a","m","e">>].v]
        \* the lines printed last: ', '.join(category_names) takes strings
        Shown(post_data, run, prints, names) ==
            IF post_data.j # "obj" THEN Left(run, NoGet(post_data), prints)
            ELSE IF \E i \in 1..Len(names) : names[i].j # "str"
            THEN Left(run, Raise("TypeError", <<>>), prints \o <<Title(post_data)>>)
            ELSE Left(run, Return(NoneVal),
                      prints \o << Title(post_data),
                                   <<"C","a","t","e","g","o","r","i","e","s",":"," ">>
                                      \o Join([i \in 1..Len(names) |-> names[i].items], <<","," ">>)
                                      \o <<"\n">> >>)
        RECURSIVE Display(_, _, _, _, _)
        \* after the lookup of the first of ids: done holds the calls so far
        Looked(post_data, prints, ids, names, done, name) ==
            IF done.out.kind = "raise" THEN Left(done, done.out, prints)
            ELSE IF done.out.value # NoneVal /\ JsonTruthy(done.out.value.v) /\ name.exc # ""
            THEN Left(done, Raise(name.exc, name.msg), prints)
            ELSE Display(post_data, prints, Tail(ids),
                         IF done.out.value # NoneVal /\ JsonTruthy(done.out.value.v)
                         THEN Append(names, name.v) ELSE names,
                         done)
        Display(post_data, prints, ids, names, done) ==
            IF ids = <<>> THEN Shown(post_data, done, prints, names)
            ELSE Then([cat \in {get_category_by_id(t, Head(ids), Rest(done)[1])} |-> Then([got \in {[done |-> After(done, cat),
                              name |-> IF cat.out.kind = "raise" \/ cat.out.value = NoneVal
                                       THEN [exc |-> "", msg |-> <<>>, v |-> JsonNum(0)]
                                       ELSE NameOf(cat.out.value.v)]} |-> Looked(post_data, prints, ids, names, got.done, got.name)])])
        Categorised(post_data, prints, run) ==
            IF run.out.kind = "raise" THEN Left(run, run.out, prints)
            ELSE IF run.out.value.v.items = <<>> THEN Titled(post_data, run, prints)
            ELSE Then([ids \in {[i \in 1..Len(run.out.value.v.items) |-> run.out.value.v.items[i].n]} |-> Then([set \in {After(run, set_post_categories(t, post_id, ids, Rest(run)))} |-> IF set.out.kind = "raise" THEN Left(set, set.out, prints)
                                          ELSE Display(post_data, prints, ids, <<>>, set)])])
        \* if category or category_id: ... elif find_text and replace_text: ...
        Categories(post_data, run, prints) ==
            IF Truthy(category) \/ Truthy(category_id)
            THEN Then([parse \in {After(run, _parse_category_input(t, category, category_id, Rest(run)))} |-> Categorised(post_data,
                                    prints \o << <<"\n","[","y","e","l","l","o","w","]","U","p","d","a","t","i","n","g"," ","c","a","t","e","g","o","r","i","e","s",".",".",".","[","/","y","e","l","l","o","w","]">> >>,
                                    parse)])
            ELSE Titled(post_data, run, prints)
        Previewed(post_data, run, new_content, changes, prints) ==
            IF changes.changes = <<>>
            THEN Left(run, Return(NoneVal),
                      prints \o changes.printed \o << <<"[","y","e","l","l","o","w","]","N","o"," ","c","h","a","n","g","e","s"," ","t","o"," ","a","p","p","l","y","[","/","y","e","l","l","o","w","]">> >>)
            ELSE IF preview
            THEN Left(run, Return(NoneVal),
                      prints \o changes.printed \o << <<"\n","[","y","e","l","l","o","w","]","P","r","e","v","i","e","w"," ","m","o","d","e"," ","-"," ","n","o"," ","c","h","a","n","g","e","s"," ","a","p","p","l","i","e","d","[","/","y","e","l","l","o","w","]">> >>)
            ELSE IF ~confirm
            THEN Left(run, Return(NoneVal),
                      prints \o changes.printed \o << <<"[","y","e","l","l","o","w","]","U","p","d","a","t","e"," ","c","a","n","c","e","l","l","e","d","[","/","y","e","l","l","o","w","]">> >>)
            ELSE Then([applied \in {[run |-> After(run, update_post(t, post_id,
                                                      << Opt(<<"p","o","s","t","_","c","o","n","t","e","n","t">>, PyStr(new_content)) >>,
                                                      Rest(run)[1])),
                       prints |-> prints \o changes.printed
                                    \o << <<"\n","[","y","e","l","l","o","w","]","U","p","d","a","t","i","n","g"," ","p","o","s","t"," ","c","o","n","t","e","n","t",".",".",".","[","/","y","e","l","l","o","w","]">> >>]} |-> IF applied.run.out.kind = "raise"
                        THEN Left(applied.run, applied.run.out, applied.prints)
                        ELSE Categories(post_data, applied.run, applied.prints)])
        \* the replacement the options ask for, then the preview
        Edited(post_data, run, current_content) ==
            Then([new_content \in {IF (line # 0 \/ nth # 0) /\ ~edits THEN current_content
                 ELSE ReplaceAll(current_content, find_text, replace_text)} |-> Then([changes \in {_show_preview(current_content, new_content)} |-> Previewed(post_data, run, new_content, changes,
                                      IF line # 0
                                      THEN << <<"[","c","y","a","n","]","R","e","p","l","a","c","i","n","g"," ","a","t"," ","l","i","n","e"," ">> \o Decimal(line) \o <<".",".",".","[","/","c","y","a","n","]">> >>
                                      ELSE IF nth # 0
                                      THEN << <<"[","c","y","a","n","]","R","e","p","l","a","c","i","n","g"," ","o","c","c","u","r","r","e","n","c","e"," ","#">> \o Decimal(nth) \o <<".",".",".","[","/","c","y","a","n","]">> >>
                                      ELSE << <<"[","c","y","a","n","]","R","e","p","l","a","c","i","n","g"," ","a","l","l"," ","o","c","c","u","r","r","e","n","c","e","s",".",".",".","[","/","c","y","a","n","]">> >>)])])
        Fetched(post) ==
            IF post.out.kind = "raise"
            THEN Left(post, Raise("Abort", <<>>),
                      << <<"[","r","e","d","]","E","r","r","o","r",":"," ","P","o","s","t"," ">> \o Decimal(post_id) \o <<" ","n","o","t"," ","f","o","u","n","d","[","/","r","e","d","]">> >>)
            ELSE IF Truthy(find_text) /\ Truthy(replace_text)
            THEN Then([current \in {After(post, get_post(t, post_id, <<"p","o","s","t","_","c","o","n","t","e","n","t">>, Rest(post)[1]))} |-> IF current.out.kind = "raise" THEN Left(current, current.out, <<>>)
                        ELSE Edited(post.out.value.v, current, current.out.value.s)])
            ELSE Categories(post.out.value.v, post, <<>>)
        Opened(done) ==
            [done EXCEPT !.printed = << <<"\n","[","y","e","l","l","o","w","]","F","e","t","c","h","i","n","g"," ","p","o","s","t"," ">> \o Decimal(post_id) \o <<".",".",".","[","/","y","e","l","l","o","w","]">> >> \o @]
        Handled(done) == Caught(done, <<"U","p","d","a","t","e"," ","c","o","m","m","a","n","d"," ","f","a","i","l","e","d",":"," ">>)
        Block(both) == Then([it \in {Then([it \in {Scoped(connects, both.built, both.body)} |-> Opened(it)])} |-> Handled(it)])
    IN  IF ~(Truthy(find_text) /\ Truthy(replace_text)) /\ ~(Truthy(category) \/ Truthy(category_id))
        THEN Handled([out |-> Raise("Abort", <<>>), issued |-> <<>>, logged |-> <<>>,
                      printed |-> << <<"[","r","e","d","]","E","r","r","o","r",":"," ","E","i","t","h","e","r"," ","(","f","i","n","d","_","t","e","x","t"," ","a","n","d"," ","r","e","p","l","a","c","e","_","t","e","x","t",")"," ","o","r"," ","(","-","-","c","a","t","e","g","o","r","y","/","-","-","c","a","t","e","g","o","r","y","-","i","d",")"," ","i","s"," ","r","e","q","u","i","r","e","d","[","/","r","e","d","]">> >>,
                      session |-> <<>>])
        ELSE Then([it \in {[built |-> WPClient(t, vs),
                          body |-> Then([it \in {get_post(t, post_id, <<>>, rs[1])} |-> Fetched(it)])]} |-> Block(it)])

----------------------------------------------------------------------------
(* Inputs of the typed operations.                                         *)

ErrInvalidPost == <<"E","r","r","o","r",":"," ","I","n","v","a","l","i","d"," ","p","o","s","t"," ","I","D",".">>
TimedOut == Raises("TimeoutError", <<"t","i","m","e","d"," ","o","u","t">>)

\* what the executor may answer to the update command
UpdateAnswers ==
    { Answers(<<"S","u","c","c","e","s","s",":"," ","U","p","d","a","t","e","d"," ","p","o","s","t"," ","1","2","3",".">>, <<>>),
      Answers(<<>>, <<"E","r","r","o","r",":"," ","T","e","r","m"," ","d","o","e","s","n","'","t"," ","e","x","i","s","t",".">>),
      Answers(<<>>, <<"E","r","r","o","r",":"," ","t","e","r","m"," ","d","o","e","s","n","'","t"," ","e","x","i","s","t",".">>),
      Answers(<<>>, <<"W","a","r","n","i","n","g",":"," ","T","e","r","m"," ","d","o","e","s","n","'","t"," ","e","x","i","s","t",".">>),
      Answers(<<>>, ErrInvalidPost),
      TimedOut }

RefetchAnswers ==
    \* what the executor may print for the refetched post
    LET PostTexts ==
            { <<"{","\"","I","D","\"",":","1","2","3",",","\"","p","o","s","t","_","c","a","t","e","g","o","r","y","\"",":","[","1",",","2","]","}">>,
              <<"{","\"","I","D","\"",":","1","2","3",",","\"","p","o","s","t","_","c","a","t","e","g","o","r","y","\"",":","[","5","]","}","\n">>,
              <<"{","\"","I","D","\"",":","1","2","3",",","\"","p","o","s","t","_","c","a","t","e","g","o","r","y","\"",":","[","9","]","}">>,
              <<"{","\"","I","D","\"",":","1","2","3",",","\"","p","o","s","t","_","t","i","t","l","e","\"",":","\"","H","i","\"","}">>,
              <<"{","\"","I","D","\"",":","1","2","3",",","\"","p","o","s","t","_","c","o","n","t","e","n","t","\"",":","\"","p","o","s","t","_","c","a","t","e","g","o","r","y","\"","}">>,
              <<"{","}">>,
              <<"o","o","p","s">>,
              <<>> }
    IN  {Answers(p, <<>>) : p \in PostTexts} \cup {Answers(<<>>, ErrInvalidPost), TimedOut}

SetCategoriesInputs ==
    [post_id : {123}, category_ids : { <<>>, <<1, 2>>, <<5>> },
     rs : UpdateAnswers \X RefetchAnswers]

\* what the executor may answer to the fetch of user 1
UserGetAnswers ==
    { Answers(<<"a","d","m","i","n","\n">>, <<>>), Answers(<<" ","o","'","n","e","i","l"," ">>, <<>>), Answers(<<>>, <<>>),
      Answers(<<>>, <<"E","r","r","o","r",":"," ","I","n","v","a","l","i","d"," ","u","s","e","r"," ","I","D",".">>), TimedOut }

\* what the executor may answer to the administrator listing
UserListAnswers ==
    { Answers(<<"a","l","i","c","e","\n","b","o","b">>, <<>>), Answers(<<"\n">>, <<>>),
      Answers(<<>>, <<"E","r","r","o","r",":"," ","I","n","v","a","l","i","d"," ","u","s","e","r"," ","I","D",".">>), TimedOut }

\* what the executor may answer to the create command
CreateAnswers ==
    { Answers(<<"4","5","6","\n">>, <<>>), Answers(<<"7">>, <<"W","a","r","n","i","n","g",":"," ","s","l","o","w">>),
      Answers(<<"S","u","c","c","e","s","s",":"," ","C","r","e","a","t","e","d"," ","p","o","s","t"," ","4","5","6",".">>, <<>>), Answers(<<>>, <<>>),
      Answers(<<>>, ErrInvalidPost), TimedOut }

\* the fields a caller may pass to create_post
CreateKwargs ==
    { <<>>,
      << Opt(<<"p","o","s","t","_","t","i","t","l","e">>, PyStr(<<"H","i">>)) >>,
      << Opt(<<"p","o","s","t","_","t","i","t","l","e">>, PyStr(<<"i","t","'","s">>)), Opt(<<"p","o","s","t","_","s","t","a","t","u","s">>, PyStr(<<"d","r","a","f","t">>)) >>,
      << Opt(<<"p","o","s","t","_","t","i","t","l","e">>, PyStr(<<"H","i">>)), Opt(<<"p","o","s","t","_","a","u","t","h","o","r">>, PyStr(<<"b","o","b">>)) >>,
      << Opt(<<"p","o","s","t","_","a","u","t","h","o","r">>, PyInt(2)), Opt(<<"p","o","s","t","_","t","i","t","l","e">>, PyStr(<<"H","i">>)) >> }

CreateInputs ==
    [kwargs : CreateKwargs, rs : UserGetAnswers \X UserListAnswers \X CreateAnswers]
        \cup [kwargs : CreateKwargs, rs : UserGetAnswers \X CreateAnswers \X {TimedOut}]
        \cup [kwargs : CreateKwargs, rs : CreateAnswers \X {TimedOut} \X {TimedOut}]

\* what the executor may answer to `term get category`
TermGetAnswers ==
    { Answers(<<"{","\"","t","e","r","m","_","i","d","\"",":","5",",","\"","n","a","m","e","\"",":","\"","N","e","w","s","\"",",","\"","s","l","u","g","\"",":","\"","n","e","w","s","\"",",","\"","p","a","r","e","n","t","\"",":","0","}","\n">>, <<>>),
      Answers(<<"S","u","c","c","e","s","s">>, <<>>), Answers(<<>>, <<>>),
      Answers(<<>>, <<"E","r","r","o","r",":"," ","T","e","r","m"," ","d","o","e","s","n","'","t"," ","e","x","i","s","t",".">>),
      Answers(<<>>, <<"b","a","s","h",":"," ","w","p",":"," ","c","o","m","m","a","n","d"," ","n","o","t"," ","f","o","u","n","d">>),
      TimedOut }

CategoryNameInputs ==
    \* what the executor may answer to `term list category`
    LET TermListAnswers ==
            { Answers(<<"[","]">>, <<>>),
              Answers(<<"[","{","\"","t","e","r","m","_","i","d","\"",":","7",",","\"","n","a","m","e","\"",":","\"","O","l","d"," ","n","e","w","s","\"",",","\"","s","l","u","g","\"",":","\"","o","l","d","\"","}",",","{","\"","t","e","r","m","_","i","d","\"",":","5",",","\"","n","a","m","e","\"",":","\"","N","E","W","S","\"",",","\"","s","l","u","g","\"",":","\"","n","\"","}",",","{","\"","t","e","r","m","_","i","d","\"",":","6",",","\"","n","a","m","e","\"",":","\"","x","\"",",","\"","s","l","u","g","\"",":","\"","n","e","w","s","\"","}","]">>, <<>>),
              Answers(<<"[","{","\"","t","e","r","m","_","i","d","\"",":","8",",","\"","n","a","m","e","\"",":","\"","M","i","s","c",".","\"",",","\"","s","l","u","g","\"",":","\"","M","I","S","C","\"","}",",","{","\"","t","e","r","m","_","i","d","\"",":","9",",","\"","n","a","m","e","\"",":","\"","m","i","s","c","\"",",","\"","s","l","u","g","\"",":","\"","m","\"","}","]">>, <<>>),
              Answers(<<"[","{","\"","t","e","r","m","_","i","d","\"",":","8",",","\"","s","l","u","g","\"",":","\"","m","i","s","c","\"","}","]">>, <<>>),
              Answers(<<"[","5","]">>, <<>>), Answers(<<"{","}">>, <<>>), Answers(<<"7">>, <<>>),
              Answers(<<"N","o"," ","c","a","t","e","g","o","r","i","e","s">>, <<>>),
              Answers(<<>>, <<"E","r","r","o","r",":"," ","E","r","r","o","r"," ","e","s","t","a","b","l","i","s","h","i","n","g"," ","a"," ","d","a","t","a","b","a","s","e"," ","c","o","n","n","e","c","t","i","o","n",".">>),
              TimedOut }
    IN  [name : { <<"N","e","w","s">>, <<"m","i","s","c">>, <<"i","t","'","s">> }, rs : TermGetAnswers \X TermListAnswers]

CategoryIdInputs == [category_id : {5, 12}, rs : TermGetAnswers \X {TimedOut}]

\* what the executor may answer to an operation's only command
OneLineAnswers ==
    { Answers(<<"S","u","c","c","e","s","s",":"," ","D","o","n","e",".","\n">>, <<>>), Answers(<<>>, <<>>),
      Answers(<<>>, <<"W","a","r","n","i","n","g",":"," ","S","l","o","w"," ","q","u","e","r","y",".">>),
      Answers(<<>>, <<"E","r","r","o","r",":"," ","S","o","m","e","t","h","i","n","g"," ","w","e","n","t"," ","w","r","o","n","g",".">>),
      Answers(<<>>, <<"b","a","s","h",":"," ","w","p",":"," ","c","o","m","m","a","n","d"," ","n","o","t"," ","f","o","u","n","d">>),
      TimedOut }

\* the connection and the construction a handler meets: all is well and the
\* executor answers the handler's calls in one of the given ways, or the
\* connection is refused, or the constructor's checks go another way
Sessions(answers, usual) ==
    \* the installation answers all four checks of the constructor
    LET Verified ==
            << Answers(<<"e","x","i","s","t","s","\n">>, <<>>), Answers(<<"e","x","i","s","t","s","\n">>, <<>>), Answers(<<"e","x","i","s","t","s","\n">>, <<>>),
               Answers(<<"W","P","-","C","L","I"," ","2",".","9",".","0","\n">>, <<>>) >>
        \* how the executor may answer the constructor's checks
        VerifyAnswers ==
            { Verified,
              [Verified EXCEPT ![1] = Answers(<<"n","o","t"," ","f","o","u","n","d","\n">>, <<>>)],
              [Verified EXCEPT ![3] = Answers(<<"n","o","t"," ","f","o","u","n","d","\n">>, <<>>)],
              [Verified EXCEPT ![2] = TimedOut],
              [Verified EXCEPT ![4] = Answers(<<>>, <<"b","a","s","h",":"," ","p","h","p",":"," ","N","o"," ","s","u","c","h"," ","f","i","l","e"," ","o","r"," ","d","i","r","e","c","t","o","r","y">>)],
              [Verified EXCEPT ![4] = Answers(<<"2",".","9",".","0">>, <<>>)] }
    IN  { [connects |-> TRUE, vs |-> Verified, rs |-> a] : a \in answers }
            \cup { [connects |-> TRUE, vs |-> v, rs |-> usual] : v \in VerifyAnswers }
            \cup { [connects |-> FALSE, vs |-> Verified, rs |-> usual] }

FileInputs ==
    \* the posts a file may hold: with a title, or with a status only
    LET FilePosts ==
            { << Opt(<<"t","i","t","l","e">>, PyStr(<<"A">>)), Opt(<<"c","o","n","t","e","n","t">>, PyStr(<<"i","t","'","s">>)) >>,
              << Opt(<<"s","t","a","t","u","s">>, PyStr(<<"d","r","a","f","t">>)) >> }
        \* how the executor may answer the lines of one item
        ItemAnswers ==
            { << Answers(<<"a","d","m","i","n">>, <<>>), Answers(<<"4","5","6","\n">>, <<>>), TimedOut >>,
              << Answers(<<"a","d","m","i","n">>, <<>>), Answers(<<"7">>, <<>>), TimedOut >>,
              << Answers(<<"a","d","m","i","n">>, <<>>), Answers(<<>>, ErrInvalidPost), TimedOut >>,
              << Answers(<<"a","d","m","i","n">>, <<>>), Answers(<<"S","u","c","c","e","s","s",":"," ","C","r","e","a","t","e","d"," ","p","o","s","t"," ","9",".">>, <<>>), TimedOut >>,
              << TimedOut, TimedOut, Answers(<<"4","5","8">>, <<>>) >> }
    IN  UNION { [posts : [1..n -> FilePosts], rss : [1..n -> ItemAnswers]] : n \in 0..MaxPosts }

----------------------------------------------------------------------------
(* The state machine: the adapter is constructed, then serves invocations  *)
(* one after another.                                                      *)

Idle == [op |-> "idle", command |-> <<>>, args |-> <<>>, kwargs |-> <<>>]
NoOutcome == [kind |-> "none", exc |-> "", msg |-> <<>>, value |-> StrVal(<<>>)]

Init ==
    /\ target \in Targets
    /\ call = Idle
    /\ reply = <<>>
    /\ issued = <<>>
    /\ outcome = NoOutcome
    /\ logged = <<>>
    /\ printed = <<>>
    /\ before = <<>>
    /\ session = <<>>

StoredFields_PathRebound(t) == [t EXCEPT !.wp_path = <<"/">>]

StoredFields_ToolRebound(t) == [t EXCEPT !.wp_cli = <<"w","p">>]

\* the adapter's fields after one of its methods has run: no method assigns
\* self.ssh, self.wp_path, self.php_bin or self.wp_cli
StoredFields(t) == t

\* the bookkeeping of one invocation: the call, the answers it consumed, the
\* lines it sent, what it returned or raised, what it logged
Serve(c, run, rs) ==
    /\ call' = c
    /\ reply' = SubSeq(rs, 1, Len(run.issued))
    /\ issued' = run.issued
    /\ outcome' = run.out
    /\ logged' = run.logged
    /\ target' = StoredFields(target)
    /\ UNCHANGED <<printed, session>>

\* a caller invokes the execution primitive with a command fragment
ExecuteWp ==
    /\ call.op = "idle"
    /\ UNCHANGED before
    /\ \E in \in ExecInputs :
        Serve([op |-> "_execute_wp", command |-> in.command, args |-> <<>>, kwargs |-> <<>>],
              _execute_wp(target, in.command, in.r), <<in.r>>)

\* a caller invokes the generic dispatch
Wp ==
    /\ call.op = "idle"
    /\ UNCHANGED before
    /\ \E in \in WpInputs :
        Serve([op |-> "wp", command |-> <<>>, args |-> in.args, kwargs |-> in.kwargs],
              wp(target, in.args, in.kwargs, in.r), <<in.r>>)

\* a caller sets the categories of a post
SetPostCategories ==
    /\ call.op = "idle"
    /\ UNCHANGED before
    /\ \E in \in SetCategoriesInputs :
        Serve([op |-> "set_post_categories", post_id |-> in.post_id,
               category_ids |-> in.category_ids],
              set_post_categories(target, in.post_id, in.category_ids, in.rs), in.rs)

\* a caller creates a post
CreatePost ==
    /\ call.op = "idle"
    /\ UNCHANGED before
    /\ \E in \in CreateInputs :
        Serve([op |-> "create_post", kwargs |-> in.kwargs],
              create_post(target, in.kwargs, in.rs), in.rs)

\* a caller looks a category up by name
GetCategoryByName ==
    /\ call.op = "idle"
    /\ UNCHANGED before
    /\ \E in \in CategoryNameInputs :
        Serve([op |-> "get_category_by_name", name |-> in.name],
              get_category_by_name(target, in.name, in.rs), in.rs)

\* a caller looks a category up by id
GetCategoryById ==
    /\ call.op = "idle"
    /\ UNCHANGED before
    /\ \E in \in CategoryIdInputs :
        Serve([op |-> "get_category_by_id", category_id |-> in.category_id],
              get_category_by_id(target, in.category_id, in.rs[1]), in.rs)

\* the caller makes the same lookup a second time, the remote site being as
\* it was: the executor answers the same command as it did
GetCategoryByIdAgain ==
    /\ call.op = "get_category_by_id"
    /\ before = <<>>
    /\ before' = <<[issued |-> issued, outcome |-> outcome]>>
    /\ Serve(call, get_category_by_id(target, call.category_id, reply[1]), reply)

\* the command-line layer creates the posts of a file
CreateFromFile ==
    /\ call.op = "idle"
    /\ \E in \in FileInputs :
        \E run \in {_create_from_file(target, in.posts, in.rss)} :
            /\ call' = [op |-> "_create_from_file", posts |-> in.posts]
            /\ reply' = run.done.reply
            /\ issued' = run.done.issued
            /\ outcome' = Return(NoneVal)
            /\ logged' = run.done.logged
            /\ printed' = run.printed
            /\ target' = StoredFields(target)
            /\ UNCHANGED <<before, session>>

\* a caller asks whether a post exists
PostExists ==
    /\ call.op = "idle"
    /\ UNCHANGED before
    /\ \E post_id \in {7, 123}, r \in OneLineAnswers :
        Serve([op |-> "post_exists", post_id |-> post_id],
              post_exists(target, post_id, r), <<r>>)

\* a caller runs the cron events that are due
RunCron ==
    /\ call.op = "idle"
    /\ UNCHANGED before
    /\ \E r \in OneLineAnswers :
        Serve([op |-> "run_cron"], run_cron(target, r), <<r>>)

\* a caller sets a configuration parameter
SetConfigParam ==
    /\ call.op = "idle"
    /\ UNCHANGED before
    /\ \E value \in { <<"t","r","u","e">>, <<"i","t","'","s">> }, r \in OneLineAnswers :
        Serve([op |-> "set_config_param", param |-> <<"W","P","_","D","E","B","U","G">>, value |-> value],
              set_config_param(target, <<"W","P","_","D","E","B","U","G">>, value, r), <<r>>)

\* a caller deletes a term of a taxonomy
DeleteTerm ==
    /\ call.op = "idle"
    /\ UNCHANGED before
    /\ \E term_id \in { <<"5">>, <<"1","2">> }, r \in OneLineAnswers :
        Serve([op |-> "delete_term", taxonomy |-> <<"c","a","t","e","g","o","r","y">>, term_id |-> term_id],
              delete_term(target, <<"c","a","t","e","g","o","r","y">>, term_id, r), <<r>>)

\* the bookkeeping of one run of a command handler
Handle(c, done, rs) ==
    /\ call' = c
    /\ reply' = SubSeq(rs, 1, Len(done.issued))
    /\ issued' = done.issued
    /\ outcome' = done.out
    /\ logged' = done.logged
    /\ printed' = done.printed
    /\ session' = done.session
    /\ UNCHANGED <<target, before>>

\* the user runs: theme activate <slug>
ThemeActivate ==
    /\ call.op = "idle"
    /\ \E in \in Sessions({<<r>> : r \in OneLineAnswers}, <<Answers(<<"S","u","c","c","e","s","s",":"," ","D","o","n","e",".","\n">>, <<>>)>>) :
        Handle([op |-> "theme_activate", theme_slug |-> <<"t","w","e","n","t","y","t","w","e","n","t","y","t","h","r","e","e">>,
                connects |-> in.connects, vs |-> in.vs],
               theme_activate(target, <<"t","w","e","n","t","y","t","w","e","n","t","y","t","h","r","e","e">>, in.connects, in.vs, in.rs[1]),
               in.rs)

\* the options of one run of the create command for a single post, with
\* what the executor usually answers and the ways one answer may differ
CreateRuns ==
    LET admin == Answers(<<"a","d","m","i","n","\n">>, <<>>)
        created == Answers(<<"4","5","6","\n">>, <<>>)
        updated == Answers(<<"S","u","c","c","e","s","s",":"," ","U","p","d","a","t","e","d"," ","p","o","s","t"," ","4","5","6",".","\n">>, <<>>)
        news == Answers(<<"{","\"","t","e","r","m","_","i","d","\"",":","5",",","\"","n","a","m","e","\"",":","\"","N","e","w","s","\"",",","\"","s","l","u","g","\"",":","\"","n","e","w","s","\"","}","\n">>, <<>>)
        misc == Answers(<<"{","\"","t","e","r","m","_","i","d","\"",":","\"","1","2","\"",",","\"","n","a","m","e","\"",":","\"","M","i","s","c","\"",",","\"","s","l","u","g","\"",":","\"","m","i","s","c","\"","}","\n">>, <<>>)
        Padded(answers) == answers \o [i \in 1..(MaxLines - Len(answers)) |-> TimedOut]
        Differs ==
            { TimedOut, Answers(<<>>, <<"E","r","r","o","r",":"," ","S","o","m","e","t","h","i","n","g"," ","w","e","n","t"," ","w","r","o","n","g",".">>),
              Answers(<<>>, <<"E","r","r","o","r",":"," ","T","e","r","m"," ","d","o","e","s","n","'","t"," ","e","x","i","s","t",".">>),
              Answers(<<"[","]">>, <<>>), Answers(<<"{","\"","t","e","r","m","_","i","d","\"",":","\"","x","\"","}">>, <<>>) }
        Runs(content, category, category_id, usual) ==
            [content |-> content, category |-> category, category_id |-> category_id,
             usual |-> Padded(usual),
             answers |-> {Padded(usual)}
                            \cup { Padded([usual EXCEPT ![i] = d]) : i \in 1..Len(usual), d \in Differs }]
    IN  { Runs(<<"H","e","l","l","o">>, <<>>, <<>>, <<admin, created>>),
          Runs(<<>>, <<>>, <<"5">>, <<admin, created>>),
          Runs(<<"H","e","l","l","o">>, <<>>, <<"5">>, <<admin, created, updated, news>>),
          Runs(<<"H","e","l","l","o">>, <<>>, <<"5",","," ","1","2">>, <<admin, created, updated, news, misc>>),
          Runs(<<"H","e","l","l","o">>, <<>>, <<"5",",","x">>, <<admin, created>>),
          Runs(<<"H","e","l","l","o">>, <<"N","e","w","s">>, <<>>, <<admin, created, news, updated, news>>),
          Runs(<<"H","e","l","l","o">>, <<"N","e","w","s",","," ","m","i","s","c">>, <<>>, <<admin, created, news, misc, updated, news, misc>>) }

\* the user runs: create "Hi" --content ... [--category ... | --category-id ...]
CreateCommand ==
    /\ call.op = "idle"
    /\ \E o \in CreateRuns : \E in \in Sessions(o.answers, o.usual) :
        Handle([op |-> "create_command", title |-> <<"H","i">>, content |-> o.content,
                status |-> <<"p","u","b","l","i","s","h">>, post_type |-> <<"p","o","s","t">>,
                category |-> o.category, category_id |-> o.category_id,
                connects |-> in.connects, vs |-> in.vs],
               create_command(target, <<"H","i">>, o.content, <<"p","u","b","l","i","s","h">>, <<"p","o","s","t">>,
                              o.category, o.category_id, in.connects, in.vs, in.rs),
               in.rs)

\* the options of one run of the update command, the user's answer to the
\* confirmation, what the content editor does, and the executor's answers
UpdateRuns ==
    LET post == Answers(<<"{","\"","I","D","\"",":","1","2","3",",","\"","p","o","s","t","_","t","i","t","l","e","\"",":","\"","H","i","\"",",","\"","p","o","s","t","_","c","o","n","t","e","n","t","\"",":","\"","x","\"","}","\n">>, <<>>)
        content == Answers(<<"x","\n">>, <<>>)
        updated == Answers(<<"S","u","c","c","e","s","s",":"," ","U","p","d","a","t","e","d"," ","p","o","s","t"," ","1","2","3",".","\n">>, <<>>)
        news == Answers(<<"{","\"","t","e","r","m","_","i","d","\"",":","5",",","\"","n","a","m","e","\"",":","\"","N","e","w","s","\"",",","\"","s","l","u","g","\"",":","\"","n","e","w","s","\"","}","\n">>, <<>>)
        Padded(answers) == answers \o [i \in 1..(MaxLines - Len(answers)) |-> TimedOut]
        Differs ==
            { TimedOut, Answers(<<>>, <<"E","r","r","o","r",":"," ","S","o","m","e","t","h","i","n","g"," ","w","e","n","t"," ","w","r","o","n","g",".">>),
              Answers(<<"[","]">>, <<>>), Answers(<<"a"," ","x","\n","b"," ","x","\n">>, <<>>) }
        Runs(find_text, replace_text, line, nth, category, category_id, usual) ==
            { [find_text |-> find_text, replace_text |-> replace_text, line |-> line, nth |-> nth,
               preview |-> preview, category |-> category, category_id |-> category_id,
               confirm |-> confirm, edits |-> edits, usual |-> Padded(usual),
               answers |-> {Padded(usual)}
                              \cup (IF preview \/ ~confirm \/ ~edits THEN {}
                                    ELSE { Padded([usual EXCEPT ![i] = d]) :
                                              i \in 1..Len(usual), d \in Differs })] :
              preview \in BOOLEAN,
              confirm \in (IF Truthy(find_text) /\ Truthy(replace_text) THEN BOOLEAN ELSE {TRUE}),
              edits \in (IF line # 0 \/ nth # 0 THEN BOOLEAN ELSE {TRUE}) }
    IN  Runs(<<"x">>, <<"y">>, 0, 0, <<>>, <<>>, <<post, content, updated>>)
            \cup Runs(<<"x">>, <<"x","\n","y">>, 0, 0, <<>>, <<>>, <<post, content, updated>>)
            \cup Runs(<<"x">>, <<"i","t","'","s">>, 1, 0, <<>>, <<>>, <<post, content, updated>>)
            \cup Runs(<<"x">>, <<"y">>, 0, 2, <<>>, <<>>, <<post, content, updated>>)
            \cup Runs(<<"z">>, <<"y">>, 0, 0, <<>>, <<>>, <<post, content>>)
            \cup Runs(<<"x">>, <<>>, 0, 0, <<>>, <<>>, <<>>)
            \cup Runs(<<>>, <<>>, 0, 0, <<>>, <<"5">>, <<post, updated, news>>)
            \cup Runs(<<>>, <<>>, 0, 0, <<"N","e","w","s">>, <<>>, <<post, news, updated, news>>)
            \cup Runs(<<"x">>, <<"y">>, 0, 0, <<>>, <<"5">>, <<post, content, updated, updated, news>>)

\* the user runs: update 123 [find replace] [--line n | --nth n] [--preview]
\* [--category ... | --category-id ...]
UpdateCommand ==
    /\ call.op = "idle"
    /\ \E o \in UpdateRuns : \E in \in Sessions(o.answers, o.usual) :
        Handle([op |-> "update_command", post_id |-> 123,
                find_text |-> o.find_text, replace_text |-> o.replace_text,
                line |-> o.line, nth |-> o.nth, preview |-> o.preview,
                category |-> o.category, category_id |-> o.category_id,
                confirm |-> o.confirm, edits |-> o.edits,
                connects |-> in.connects, vs |-> in.vs],
               update_command(target, 123, o.find_text, o.replace_text, o.line, o.nth, o.preview,
                              o.category, o.category_id, o.confirm, o.edits,
                              in.connects, in.vs, in.rs),
               in.rs)

\* the invocation is over: its locals are discarded, the adapter's fields stay
Finish ==
    /\ call.op # "idle"
    /\ call' = Idle
    /\ reply' = <<>>
    /\ issued' = <<>>
    /\ outcome' = NoOutcome
    /\ logged' = <<>>
    /\ printed' = <<>>
    /\ before' = <<>>
    /\ session' = <<>>
    /\ UNCHANGED target

Next ==
    \/ ExecuteWp \/ Wp \/ SetPostCategories \/ CreatePost
    \/ GetCategoryByName \/ GetCategoryById \/ GetCategoryByIdAgain
    \/ CreateFromFile
    \/ PostExists \/ RunCron \/ SetConfigParam \/ DeleteTerm
    \/ ThemeActivate \/ CreateCommand \/ UpdateCommand
    \/ Finish

Spec == Init /\ [][Next]_vars

----------------------------------------------------------------------------
(* What the properties are stated with: a POSIX shell's reading of a       *)
(* command line, and the observations of one invocation.                   *)

Words(ok, words) == [ok |-> ok, words |-> words]

Blanks == {" ", "\t", "\n"}

\* the first position from i on whose character is in set, or Len(s) + 1
NextIn(s, i, set) ==
    LET hits == {j \in i..Len(s) : s[j] \in set}
    IN  IF hits = {} THEN Len(s) + 1 ELSE CHOOSE j \in hits : \A k \in hits : j <= k

RECURSIVE ShellScan(_, _, _, _, _)
\* the shell's word splitting and quote removal of s from position i on:
\* between single quotes every character is literal up to the next quote;
\* outside, a backslash makes the next character literal and blanks end a
\* word.  ok is FALSE for a line that ends inside a quote or on a backslash
ShellScan(s, i, word, open, words) ==
    IF i > Len(s) THEN Words(TRUE, IF open THEN Append(words, word) ELSE words)
    ELSE CASE s[i] = "'" ->
                LET j == NextIn(s, i + 1, {"'"})
                IN  IF j > Len(s) THEN Words(FALSE, words)
                    ELSE ShellScan(s, j + 1, word \o SubSeq(s, i + 1, j - 1), TRUE, words)
           [] s[i] = "\\" ->
                IF i + 1 > Len(s) THEN Words(FALSE, words)
                ELSE ShellScan(s, i + 2, Append(word, s[i + 1]), TRUE, words)
           [] s[i] \in Blanks ->
                ShellScan(s, i + 1, <<>>, FALSE, IF open THEN Append(words, word) ELSE words)
           [] OTHER ->
                LET j == NextIn(s, i, {"'", "\\"} \cup Blanks)
                IN  ShellScan(s, j, word \o SubSeq(s, i, j - 1), TRUE, words)

ShellWords(s) == ShellScan(s, 1, <<>>, FALSE, <<>>)

\* the words the remote shell hands to the tool: those after
\* cd <dir> && <interpreter> <tool>
ToolWords == LET w == ShellWords(issued[1]) IN SubSeq(w.words, 6, Len(w.words))

\* the command fragment inside the issued line, as text
LinePrefix ==
    Join(<< <<"c","d">>, target.wp_path, <<"&","&">>, target.php_bin, target.wp_cli >>, <<" ">>)
        \o <<" ">>
SentFragment == SubSeq(issued[1], Len(LinePrefix) + 1, Len(issued[1]))

Hyphenated(name) == [i \in 1..Len(name) |-> IF name[i] = "_" THEN "-" ELSE name[i]]

IsFlag(v) == v = PyTrue
IsOmitted(v) == v = PyFalse \/ v = PyNone
IsValued(v) == ~IsFlag(v) /\ ~IsOmitted(v)

\* the options of kw, in order, that render as a flag, that render with a
\* value, and that render at all
Flags(kw) == SelectSeq(kw, LAMBDA o : IsFlag(o.v))
Valued(kw) == SelectSeq(kw, LAMBDA o : IsValued(o.v))
Kept(kw) == SelectSeq(kw, LAMBDA o : ~IsOmitted(o.v))

\* the part of a word after its first "="
AfterEquals(w) ==
    LET eq == {i \in 1..Len(w) : w[i] = "="}
    IN  SubSeq(w, (CHOOSE i \in eq : \A j \in eq : i <= j) + 1, Len(w))

HasEquals(w) == \E i \in 1..Len(w) : w[i] = "="

\* t is raw without its leading and trailing whitespace
IsTrimOf(t, raw) ==
    /\ t # <<>> => t[1] \notin Whitespace /\ t[Len(t)] \notin Whitespace
    /\ \E i \in 0..Len(raw) :
        /\ i + Len(t) <= Len(raw)
        /\ SubSeq(raw, i + 1, i + Len(t)) = t
        /\ \A j \in (1..i) \cup ((i + Len(t) + 1)..Len(raw)) : raw[j] \in Whitespace

\* the call has an option named format, after hyphenation, with value 'json'
Marked(kw) ==
    \E i \in 1..Len(kw) :
        /\ Hyphenated(kw[i].k) = <<"f","o","r","m","a","t">>
        /\ kw[i].v = PyStr(<<"j","s","o","n">>)

\* the executor's stderr, compared without regard to letter case, has pat
Has(pat) == Contains(Lower(reply[1].stderr), pat)
Fatal == Has(PatCommandNotFound) \/ Has(PatNoSuchFile) \/ Has(PatError)

InWp == call.op = "wp"
InExec == call.op = "_execute_wp"
Answered == reply # <<>> /\ ~reply[1].raises

----------------------------------------------------------------------------
(* C1: escaping round trip.  For every option value v of a wp() call that  *)
(* is rendered as --name='...', the shell's quote removal of the rendered  *)
(* fragment gives back exactly v: the words the shell hands to the tool    *)
(* for the valued options carry, after the "=", the values of the call in  *)
(* the call's order, and the line has no unterminated quote.               *)
C1_EscapeRoundTrip ==
    InWp =>
        LET valued == Valued(call.kwargs)
            words == SubSeq(ToolWords, Len(call.args) + 1, Len(ToolWords))
            carried == SelectSeq(words, LAMBDA w : HasEquals(w))
        IN  /\ ShellWords(issued[1]).ok
            /\ Len(carried) = Len(valued)
            /\ \A i \in 1..Len(valued) : AfterEquals(carried[i]) = Str(valued[i].v)

\* a value holding a quote next to a backslash went through wp()
C1_Witness ==
    /\ InWp
    /\ Len(issued) = 1
    /\ \E i \in 1..Len(call.kwargs) :
        /\ call.kwargs[i].v.t = "str"
        /\ Contains(call.kwargs[i].v.s, <<"\\","'">>)
        /\ Contains(call.kwargs[i].v.s, <<"'","'">>)

(* C2: flag rendering.  An option whose value is True renders as exactly  *)
(* the token --<name with hyphens for underscores>, with no "=" and no     *)
(* value; an option whose value is False or None contributes no token.     *)
C2_FlagRendering ==
    InWp =>
        LET flags == Flags(call.kwargs)
            kept == Kept(call.kwargs)
            words == SubSeq(ToolWords, Len(call.args) + 1, Len(ToolWords))
            bare == SelectSeq(words, LAMBDA w : ~HasEquals(w))
        IN  /\ Len(words) = Len(kept)
            /\ Len(bare) = Len(flags)
            /\ \A i \in 1..Len(flags) : bare[i] = <<"-","-">> \o Hyphenated(flags[i].k)
            /\ \A i \in 1..Len(kept) :
                IsFlag(kept[i].v) <=> ~HasEquals(words[i])

\* a call with a True option with an underscore in its name, and a False one
C2_Witness ==
    /\ InWp
    /\ Len(issued) = 1
    /\ \E i, j \in 1..Len(call.kwargs) :
        /\ call.kwargs[i].v = PyTrue
        /\ call.kwargs[i].k = <<"d","r","y","_","r","u","n">>
        /\ call.kwargs[j].v = PyFalse

RECURSIVE Quoted(_)
\* v between single quotes, each quote of v written as the four characters '\''
Quoted(v) ==
    IF v = <<>> THEN <<>>
    ELSE (IF Head(v) = "'" THEN <<"'","\\","'","'">> ELSE <<Head(v)>>) \o Quoted(Tail(v))

RECURSIVE Assembled(_, _)
\* the verbs, then the options in the mapping's order, one space before each
\* part but the first
Assembled(verbs, kw) ==
    IF verbs # <<>>
    THEN Head(verbs)
            \o (IF Len(verbs) + Len(Kept(kw)) > 1 THEN <<" ">> ELSE <<>>)
            \o Assembled(Tail(verbs), kw)
    ELSE IF kw = <<>> THEN <<>>
    ELSE IF IsOmitted(Head(kw).v) THEN Assembled(<<>>, Tail(kw))
    ELSE <<"-","-">> \o Hyphenated(Head(kw).k)
            \o (IF IsFlag(Head(kw).v) THEN <<>>
                ELSE <<"=","'">> \o Quoted(Str(Head(kw).v)) \o <<"'">>)
            \o (IF Kept(Tail(kw)) # <<>> THEN <<" ">> ELSE <<>>)
            \o Assembled(<<>>, Tail(kw))

(* C3: command assembly.  The fragment wp() hands to the execution        *)
(* primitive is the verb tokens in the caller's order, then the rendered   *)
(* options in the mapping's order, joined by exactly one space; a valued   *)
(* option appears as --<name>='<escaped value>'; no verb is reordered,     *)
(* dropped or duplicated.                                                  *)
C3_CommandAssembly ==
    InWp =>
        /\ SentFragment = Assembled(call.args, call.kwargs)
        /\ SubSeq(ToolWords, 1, Len(call.args)) = call.args

\* three verbs and two rendered options, one of them a value with a quote
C3_Witness ==
    /\ InWp
    /\ Len(issued) = 1
    /\ Len(call.args) = 3
    /\ Len(call.kwargs) = 2
    /\ call.kwargs[1].v = PyTrue
    /\ call.kwargs[2] = Opt(<<"p","o","s","t","_","t","i","t","l","e">>, PyStr(<<"i","t","'","s">>))

(* C4: JSON auto-decode.  A wp() call decodes its result only when some   *)
(* option is named format and has the value 'json'; such a call whose      *)
(* trimmed stdout is not empty returns the decoded structure when stdout   *)
(* is valid JSON, and the raw trimmed string, without raising, when it is  *)
(* malformed.                                                              *)
C4_JsonAutoDecode ==
    (InWp /\ Answered /\ ~Fatal) =>
        LET out == Strip(reply[1].stdout)
            marked == Marked(call.kwargs)
        IN  /\ outcome.kind = "return"
            /\ outcome.value.t = "json" => marked
            /\ (marked /\ out # <<>> /\ JsonLoads(out).ok)
                    => outcome.value = JsonVal(JsonLoads(out).val)
            /\ (marked /\ out # <<>> /\ ~JsonLoads(out).ok)
                    => outcome.value = StrVal(out)
            /\ (marked /\ out = <<"[","1",",","2","]">>)
                    => outcome.value.v = JsonArr(<<JsonNum(1), JsonNum(2)>>)
            /\ (marked /\ out = <<"[","1",",","2">>)
                    => outcome.value = StrVal(<<"[","1",",","2">>)

\* a marked call whose stdout, once trimmed, is the array [1,2]
C4_Witness ==
    /\ InWp
    /\ Marked(call.kwargs)
    /\ Answered
    /\ reply[1].stdout = <<"[","1",",","2","]","\n">>
    /\ outcome = Return(JsonVal(JsonArr(<<JsonNum(1), JsonNum(2)>>)))

(* C5: a wp() call that is not marked for decoding, or whose stdout is     *)
(* empty or only whitespace, returns stdout without its leading and        *)
(* trailing whitespace (the empty string for blank stdout), never a        *)
(* structured payload.                                                     *)
C5_PlainResult ==
    (InWp /\ Answered /\ ~Fatal
          /\ (~Marked(call.kwargs) \/ \A i \in 1..Len(reply[1].stdout) : reply[1].stdout[i] \in Whitespace)) =>
        /\ outcome.kind = "return"
        /\ outcome.value.t = "str"
        /\ outcome.value.v = NoJson
        /\ IsTrimOf(outcome.value.s, reply[1].stdout)

\* an unmarked call whose stdout is valid JSON between whitespace
C5_Witness ==
    /\ InWp
    /\ ~Marked(call.kwargs)
    /\ Answered
    /\ reply[1].stdout = <<"\n","[","1","]">>
    /\ outcome = Return(StrVal(<<"[","1","]">>))

(* C6: every call of _execute_wp(command) invokes the remote executor      *)
(* exactly once, with the line cd <wp_path> && <php_bin> <wp_cli> <command>*)
(* built from the stored target and the command as given.                  *)
C6_OneRemoteLine ==
    /\ (InExec \/ InWp) => Len(issued) = 1 /\ Len(reply) = 1
    /\ InExec =>
        issued[1] = Join(<< <<"c","d">>, target.wp_path, <<"&","&">>, target.php_bin,
                            target.wp_cli, call.command >>, <<" ">>)

\* the line of the test fixture's shape: cd /var/www && php /bin/wp post list
C6_Witness ==
    /\ InExec
    /\ issued = << <<"c","d"," ","/","v","a","r","/","w","w","w"," ","&","&"," ","p","h","p"," ",
                     "/","b","i","n","/","w","p"," ","p","o","s","t"," ","l","i","s","t">> >>

(* C7: an exception raised by the remote executor during _execute_wp is    *)
(* caught and raised again as a WPCLIError whose message contains the      *)
(* original message; no exception of another type leaves the primitive.    *)
C7_TransportWrapped ==
    ((InExec \/ InWp) /\ reply[1].raises) =>
        /\ outcome.kind = "raise"
        /\ outcome.exc = "WPCLIError"
        /\ Contains(outcome.msg, reply[1].msg)

\* the executor raised a timeout and the caller of _execute_wp got a WPCLIError
C7_Witness ==
    /\ InExec
    /\ reply[1].raises
    /\ reply[1].exc = "TimeoutError"
    /\ outcome.exc = "WPCLIError"

(* C8: error precedence.  On lower-cased stderr the checks run in the      *)
(* order 'command not found', 'no such file or directory', 'error:', and   *)
(* the first match decides the failure variant; stderr with 'command not   *)
(* found' always gives the not-found guidance, naming the tool path and    *)
(* the interpreter path.                                                   *)
C8_ErrorPrecedence ==
    (InExec /\ Answered) =>
        /\ Has(PatCommandNotFound) =>
            /\ outcome.kind = "raise"
            /\ StartsWith(outcome.msg, <<"W","P","-","C","L","I"," ","c","o","m","m","a","n","d"," ","n","o","t"," ","f","o","u","n","d","\n">>)
            /\ Contains(outcome.msg, <<":"," ">> \o target.wp_cli \o <<"\n">>)
            /\ Contains(outcome.msg, <<":"," ">> \o target.php_bin)
        /\ (~Has(PatCommandNotFound) /\ Has(PatNoSuchFile)) =>
            /\ outcome.kind = "raise"
            /\ StartsWith(outcome.msg, <<"F","i","l","e"," ","o","r"," ","d","i","r","e","c","t","o","r","y"," ","n","o","t"," ","f","o","u","n","d","\n">>)
        /\ (~Has(PatCommandNotFound) /\ ~Has(PatNoSuchFile) /\ Has(PatError)) =>
            /\ outcome.kind = "raise"
            /\ StartsWith(outcome.msg, <<"W","P","-","C","L","I"," ","e","r","r","o","r",":"," ">>)

\* stderr holds 'error:' before 'command not found' and the guidance is given
C8_Witness ==
    /\ InExec
    /\ Answered
    /\ reply[1].stderr = <<"E","r","r","o","r",":"," ">> \o <<"C","o","m","m","a","n","d"," ","N","o","t"," ","F","o","u","n","d">>
    /\ outcome.kind = "raise"
    /\ StartsWith(outcome.msg, <<"W","P","-","C","L","I"," ","c","o","m","m","a","n","d"," ","n","o","t"," ","f","o","u","n","d","\n">>)

(* C9: stderr that has 'error:' (in any letter case) and neither of the    *)
(* two earlier patterns makes _execute_wp raise a WPCLIError carrying the  *)
(* whole stderr text as it was; the phrase "term doesn't exist" in stderr  *)
(* never prevents the raise.                                               *)
C9_GenericErrorRaises ==
    (InExec /\ Answered /\ Has(PatError)
            /\ ~Has(PatCommandNotFound) /\ ~Has(PatNoSuchFile)) =>
        /\ outcome.kind = "raise"
        /\ outcome.exc = "WPCLIError"
        /\ Len(outcome.msg) >= Len(reply[1].stderr)
        /\ SubSeq(outcome.msg, Len(outcome.msg) - Len(reply[1].stderr) + 1, Len(outcome.msg))
                = reply[1].stderr

\* stderr is "Error: Term doesn't exist" and the call raised
C9_Witness ==
    /\ InExec
    /\ Answered
    /\ reply[1].stderr = <<"E","r","r","o","r",":"," ","T","e","r","m"," ","d","o","e","s","n","'","t"," ","e","x","i","s","t">>
    /\ outcome.kind = "raise"

(* C10: when stderr is empty, or has none of the three failure phrases,    *)
(* _execute_wp does not raise and returns stdout without its leading and   *)
(* trailing whitespace; whether the call fails is decided by stderr alone, *)
(* whatever stdout holds.                                                  *)
C10_SuccessOnBenignStderr ==
    (InExec /\ Answered) =>
        /\ outcome.kind = "raise" <=> Fatal
        /\ ~Fatal =>
            /\ outcome.kind = "return"
            /\ outcome.value.t = "str"
            /\ IsTrimOf(outcome.value.s, reply[1].stdout)

\* stderr is a warning, stdout reads like an error, and stdout is returned
C10_Witness ==
    /\ InExec
    /\ Answered
    /\ reply[1].stderr = <<"W","a","r","n","i","n","g",":"," ">>
    /\ reply[1].stdout = <<"e","r","r","o","r",":"," ","c","o","m","m","a","n","d"," ","n","o","t"," ","f","o","u","n","d">>
    /\ outcome = Return(StrVal(reply[1].stdout))

----------------------------------------------------------------------------
(* Helpers of the claims about operations that send several lines.         *)

InSetCategories == call.op = "set_post_categories"

\* the i-th line sent was answered, and the answer makes the primitive raise
FatalText(stderr) ==
    \/ Contains(Lower(stderr), PatCommandNotFound)
    \/ Contains(Lower(stderr), PatNoSuchFile)
    \/ Contains(Lower(stderr), PatError)
FailedAt(i) == i \in 1..Len(reply) /\ (reply[i].raises \/ FatalText(reply[i].stderr))
PassedAt(i) == i \in 1..Len(reply) /\ ~reply[i].raises /\ ~FatalText(reply[i].stderr)

\* the update command failed and the executor's report holds "Term doesn't exist"
TermError ==
    /\ InSetCategories
    /\ FailedAt(1) /\ ~reply[1].raises
    /\ Contains(reply[1].stderr, <<"T","e","r","m"," ","d","o","e","s","n","'","t"," ","e","x","i","s","t">>)

\* the refetch succeeded and printed a JSON document
RefetchedPost == JsonLoads(Strip(reply[2].stdout))
Refetched == TermError /\ PassedAt(2) /\ RefetchedPost.ok

\* the decoded post is an object whose post_category member lists ids
HasCategoryList(post, ids) ==
    /\ post.j = "obj"
    /\ \E m \in 1..Len(post.items) :
        /\ post.items[m].k = <<"p","o","s","t","_","c","a","t","e","g","o","r","y">>
        /\ post.items[m].v = JsonArr([i \in 1..Len(ids) |-> JsonNum(ids[i])])

(* C11: category compensation.  When the update command of                 *)
(* set_post_categories raises an error containing "Term doesn't exist",    *)
(* the call returns True if the refetched post contains the target         *)
(* category list and raises if the refetched post lacks it.                *)
C11_CategoryCompensation ==
    Refetched =>
        IF HasCategoryList(RefetchedPost.val, call.category_ids)
        THEN outcome = Return(TrueVal)
        ELSE outcome.kind = "raise"

\* the error the failed update command raised
OriginalError == Raise("WPCLIError", <<"W","P","-","C","L","I"," ","e","r","r","o","r",":"," ">> \o reply[1].stderr)

(* C12: after the update command of set_post_categories raised an error    *)
(* containing "Term doesn't exist", the call has exactly two outcomes: it  *)
(* returns True, or the error that reaches the caller is the original      *)
(* error of the update command.  This holds for every result of the        *)
(* refetch, a refetch that itself fails included.                          *)
C12_TrueOrOriginalError ==
    TermError => (outcome = Return(TrueVal) \/ outcome = OriginalError)

\* the command fragment of the i-th line sent
SentAt(i) == SubSeq(issued[i], Len(LinePrefix) + 1, Len(issued[i]))
Updates == {i \in 1..Len(issued) : StartsWith(SentAt(i), <<"p","o","s","t"," ","u","p","d","a","t","e"," ">>)}
Refetches == {i \in 1..Len(issued) : StartsWith(SentAt(i), <<"p","o","s","t"," ","g","e","t"," ">>)}

\* the invocation in progress is one operation of the adapter (the bulk
\* creation of the command-line layer is a series of them)
AdapterOperation ==
    call.op \notin {"idle", "_create_from_file", "theme_activate", "create_command", "update_command"}

\* no line that failed is sent again by the same operation of the adapter
NoLineRepeated ==
    AdapterOperation =>
        \A i \in 1..Len(issued) : \A j \in (i + 1)..Len(issued) :
            FailedAt(i) => issued[j] # issued[i]

\* the refetch is sent at most once, and only after the Term error
OneShotRefetch ==
    /\ Cardinality(Refetches) <= 1
    /\ Refetches # {} => (TermError /\ Refetches = {2} /\ Len(issued) = 2)

(* C13 as stated: no automatic retries.  Within one set_post_categories    *)
(* call the update command is issued exactly once and the refetch at most  *)
(* once, only after an error containing "Term doesn't exist"; in no        *)
(* operation is a line that failed issued a second time.                   *)
C13_NoRetries_AsStated ==
    /\ InSetCategories => (Cardinality(Updates) = 1 /\ OneShotRefetch)
    /\ NoLineRepeated

(* C13, amended: a set_post_categories call with a non-empty category list *)
(* issues the update command exactly once, as its first line, and a call   *)
(* with an empty list issues nothing; the refetch is issued at most once,  *)
(* only after an error containing "Term doesn't exist"; in no operation is *)
(* a line that failed issued a second time.                                *)
C13_NoRetries ==
    /\ InSetCategories =>
        /\ Updates = (IF call.category_ids = <<>> THEN {} ELSE {1})
        /\ call.category_ids = <<>> => issued = <<>>
        /\ OneShotRefetch
    /\ NoLineRepeated

\* the update failed with the Term error, the refetch failed too, and the
\* call ended there: two lines, two different commands
C13_Witness ==
    /\ TermError
    /\ Len(issued) = 2
    /\ FailedAt(2)
    /\ Updates = {1} /\ Refetches = {2}
    /\ outcome.kind = "raise"

----------------------------------------------------------------------------
(* Helpers of the claims about create_post.                                *)

InCreate == call.op = "create_post"
Supplied(key) == \E i \in 1..Len(call.kwargs) : call.kwargs[i].k = key
NonBlank(text) == \E i \in 1..Len(text) : text[i] \notin Whitespace

\* the words the remote shell hands to the tool for the i-th line sent
FragmentWords(i) == LET w == ShellWords(issued[i]) IN SubSeq(w.words, 6, Len(w.words))

\* the words of the fields the caller supplied, in the caller's order
SuppliedWords ==
    [i \in 1..Len(call.kwargs) |->
        <<"-","-">> \o call.kwargs[i].k \o <<"=">> \o Str(call.kwargs[i].v)]

IsUserGet(i) == SentAt(i) = <<"u","s","e","r"," ","g","e","t"," ","1"," ","-","-","f","i","e","l","d","=","u","s","e","r","_","l","o","g","i","n">>
IsUserList(i) ==
    SentAt(i) = <<"u","s","e","r"," ","l","i","s","t"," ","-","-","r","o","l","e","=","a","d","m","i","n","i","s","t","r","a","t","o","r"," ","-","-","f","i","e","l","d","=","u","s","e","r","_","l","o","g","i","n"," ","-","-","f","o","r","m","a","t","=","c","s","v">>
IsCreate(i) == StartsWith(SentAt(i), <<"p","o","s","t"," ","c","r","e","a","t","e"," ">>)

AuthorOption == <<"-","-","p","o","s","t","_","a","u","t","h","o","r","=">>

RECURSIVE Number(_)
\* the number a text of decimal digits denotes
Number(digits) ==
    IF digits = <<>> THEN 0
    ELSE 10 * Number(SubSeq(digits, 1, Len(digits) - 1)) + DigitVal(digits[Len(digits)])

\* the text is a run of decimal digits
IsNumber(text) == text # <<>> /\ \A c \in 1..Len(text) : IsDigit(text[c])

(* C14: end-to-end create.  A create_post call without post_author, when   *)
(* the fetch of user 1 succeeds with a non-empty login L, issues the user  *)
(* lookup and then the create command; the create command carries every    *)
(* supplied field, then --post_author='L', then --porcelain; and when the  *)
(* create command prints an integer, the call returns that integer.        *)
C14_CreateWithDefaultAuthor ==
    (InCreate /\ ~Supplied(<<"p","o","s","t","_","a","u","t","h","o","r">>) /\ PassedAt(1) /\ NonBlank(reply[1].stdout)) =>
        /\ Len(issued) = 2
        /\ IsUserGet(1)
        /\ IsCreate(2)
        /\ LET w == FragmentWords(2)
               n == Len(call.kwargs)
           IN  /\ ShellWords(issued[2]).ok
               /\ Len(w) = n + 4
               /\ SubSeq(w, 1, 2) = << <<"p","o","s","t">>, <<"c","r","e","a","t","e">> >>
               /\ SubSeq(w, 3, n + 2) = SuppliedWords
               /\ StartsWith(w[n + 3], AuthorOption)
               /\ IsTrimOf(SubSeq(w[n + 3], Len(AuthorOption) + 1, Len(w[n + 3])), reply[1].stdout)
               /\ w[n + 4] = <<"-","-","p","o","r","c","e","l","a","i","n">>
        /\ LET id == Strip(reply[2].stdout)
           IN  (PassedAt(2) /\ IsTrimOf(id, reply[2].stdout) /\ IsNumber(id)) =>
                    outcome = Return(IntVal(Number(id)))

\* user 1 is o'neil, two fields were supplied, and the post got number 456
C14_Witness ==
    /\ InCreate
    /\ Len(call.kwargs) = 2 /\ ~Supplied(<<"p","o","s","t","_","a","u","t","h","o","r">>)
    /\ Len(reply) = 2
    /\ reply[1] = Answers(<<" ","o","'","n","e","i","l"," ">>, <<>>)
    /\ FragmentWords(2)[5] = <<"-","-","p","o","s","t","_","a","u","t","h","o","r","=","o","'","n","e","i","l">>
    /\ Contains(issued[2], <<"-","-","p","o","s","t","_","a","u","t","h","o","r","=","'","o","'","\\","'","'","n","e","i","l","'"," ","-","-","p","o","r","c","e","l","a","i","n">>)
    /\ outcome = Return(IntVal(456))

\* the lookups resolved a default user: user 1 has a login, or, the fetch of
\* user 1 having failed, the administrator listing has a first line
Resolved ==
    \/ PassedAt(1) /\ NonBlank(reply[1].stdout)
    \/ FailedAt(1) /\ PassedAt(2) /\ NonBlank(FirstLine(Strip(reply[2].stdout)))

(* C15: default-author resolution is best-effort.  In a create_post call   *)
(* without post_author the administrator listing is issued only after the  *)
(* fetch of user 1 failed; whatever the two lookups do, both failing       *)
(* included, the create command is still issued, as the last line; when no *)
(* default user was resolved the create command has no post_author option; *)
(* and an error that reaches the caller is never the lookups'.             *)
C15_AuthorLookupBestEffort ==
    (InCreate /\ ~Supplied(<<"p","o","s","t","_","a","u","t","h","o","r">>)) =>
        LET last == Len(issued)
        IN  /\ last \in 2..3
            /\ IsUserGet(1)
            /\ \A i \in 1..last : IsUserList(i) => (i = 2 /\ FailedAt(1))
            /\ FailedAt(1) => (last = 3 /\ IsUserList(2))
            /\ IsCreate(last)
            /\ \A i \in 1..(last - 1) : ~IsCreate(i)
            /\ ~Resolved =>
                /\ ShellWords(issued[last]).ok
                /\ \A w \in 1..Len(FragmentWords(last)) :
                    ~StartsWith(FragmentWords(last)[w], AuthorOption)
            /\ outcome.kind = "raise" => (FailedAt(last) \/ outcome.exc = "ValueError")
            /\ (PassedAt(last) /\ IsTrimOf(<<"4","5","6">>, reply[last].stdout)) =>
                    outcome = Return(IntVal(456))

\* both lookups failed and the post was created all the same, without author
C15_Witness ==
    /\ InCreate
    /\ call.kwargs = << Opt(<<"p","o","s","t","_","t","i","t","l","e">>, PyStr(<<"H","i">>)) >>
    /\ Len(issued) = 3
    /\ FailedAt(1) /\ FailedAt(2) /\ reply[2].raises
    /\ SentAt(3) = <<"p","o","s","t"," ","c","r","e","a","t","e"," ","-","-","p","o","s","t","_","t","i","t","l","e","=","'","H","i","'"," ","-","-","p","o","r","c","e","l","a","i","n">>
    /\ outcome = Return(IntVal(456))

----------------------------------------------------------------------------
(* Helpers of the claims about the category lookups.                       *)

InByName == call.op = "get_category_by_name"

IsSlugLookup(i) ==
    SentAt(i) = <<"t","e","r","m"," ","g","e","t"," ","c","a","t","e","g","o","r","y"," ","'">> \o call.name
                    \o <<"'"," ","-","-","f","o","r","m","a","t","=","j","s","o","n"," ","-","-","f","i","e","l","d","s","=","t","e","r","m","_","i","d",",","n","a","m","e",",","s","l","u","g",",","p","a","r","e","n","t">>
IsSearchListing(i) ==
    SentAt(i) = <<"t","e","r","m"," ","l","i","s","t"," ","c","a","t","e","g","o","r","y"," ","-","-","f","o","r","m","a","t","=","j","s","o","n"," ","-","-","f","i","e","l","d","s","=","t","e","r","m","_","i","d",",","n","a","m","e",",","s","l","u","g",",","p","a","r","e","n","t",",","c","o","u","n","t"," ","-","-","s","e","a","r","c","h","=","\"">>
                    \o call.name \o <<"\"">>

\* what the i-th answer prints, decoded
DecodedAt(i) == JsonLoads(Strip(reply[i].stdout))

\* the lookup failed and the tool reported that the term does not exist
NotFoundAt(i) ==
    /\ FailedAt(i) /\ ~reply[i].raises
    /\ Contains(Lower(reply[i].stderr), <<"t","e","r","m"," ","d","o","e","s","n","'","t"," ","e","x","i","s","t">>)

\* the value of a text field of a category entry
TextOf(entry, key) ==
    LET at == {m \in 1..Len(entry.items) : entry.items[m].k = key}
    IN  entry.items[CHOOSE m \in at : TRUE].v.items

\* the listing is a list of entries that each have a name and a slug
IsEntry(e) ==
    /\ e.j = "obj"
    /\ \A key \in { <<"n","a","m","e">>, <<"s","l","u","g">> } :
        \E m \in 1..Len(e.items) : e.items[m].k = key /\ e.items[m].v.j = "str"
IsListing(v) == v.j = "arr" /\ \A i \in 1..Len(v.items) : IsEntry(v.items[i])

\* the entry is called name, letter case apart, by its name or by its slug
Called(e, name) ==
    \/ Lower(TextOf(e, <<"n","a","m","e">>)) = Lower(name)
    \/ Lower(TextOf(e, <<"s","l","u","g">>)) = Lower(name)

\* the first listed entry called name, or None
FirstCalled(entries, name) ==
    LET hits == {i \in 1..Len(entries) : Called(entries[i], name)}
    IN  IF hits = {} THEN Return(NoneVal)
        ELSE Return(JsonVal(entries[CHOOSE i \in hits : \A k \in hits : i <= k]))

\* what the claim says of the slug lookup that succeeds and of the listing
LookupThenListing ==
    /\ Len(issued) >= 1 /\ IsSlugLookup(1)
    /\ (PassedAt(1) /\ DecodedAt(1).ok) =>
            (Len(issued) = 1 /\ outcome = Return(JsonVal(DecodedAt(1).val)))
    /\ Len(issued) <= 2
    /\ Len(issued) = 2 =>
        /\ IsSearchListing(2)
        /\ (PassedAt(2) /\ DecodedAt(2).ok /\ IsListing(DecodedAt(2).val)) =>
                outcome = FirstCalled(DecodedAt(2).val.items, call.name)

PrimitiveFailed == \E i \in 1..Len(reply) : FailedAt(i)

(* C17: category resolution by name is best-effort.  A failure of the      *)
(* execution primitive during get_category_by_name, in the slug lookup or  *)
(* in the search-listing fallback, never reaches the caller: the call      *)
(* returns a category or None.                                             *)
C17_NameLookupBestEffort ==
    (InByName /\ PrimitiveFailed) =>
        /\ ~(outcome.kind = "raise" /\ outcome.exc = "WPCLIError")
        /\ (Len(issued) = 2 /\ FailedAt(2)) => outcome.kind = "return"

----------------------------------------------------------------------------
FirstCommandAsCalled ==
    CASE InExec -> SentAt(1) = call.command
      [] InWp -> SentAt(1) = Assembled(call.args, call.kwargs)
      [] InSetCategories ->
            \/ call.category_ids = <<>> /\ issued = <<>>
            \/ /\ call.category_ids # <<>>
               /\ StartsWith(SentAt(1), <<"p","o","s","t"," ","u","p","d","a","t","e"," ">> \o Decimal(call.post_id)
                                            \o <<" ","-","-","p","o","s","t","_","c","a","t","e","g","o","r","y","=">> \o Decimal(call.category_ids[1]))
      [] InCreate -> IF Supplied(<<"p","o","s","t","_","a","u","t","h","o","r">>) THEN IsCreate(1) ELSE IsUserGet(1)
      [] InByName -> IsSlugLookup(1)
      [] call.op = "get_category_by_id" ->
            SentAt(1) = <<"t","e","r","m"," ","g","e","t"," ","c","a","t","e","g","o","r","y"," ">> \o Decimal(call.category_id)
                            \o <<" ","-","-","f","o","r","m","a","t","=","j","s","o","n"," ","-","-","f","i","e","l","d","s","=","t","e","r","m","_","i","d",",","n","a","m","e",",","s","l","u","g",",","p","a","r","e","n","t">>
      [] call.op = "_create_from_file" ->
            IF call.posts = <<>> THEN issued = <<>> ELSE IsUserGet(1)
      [] call.op = "post_exists" -> SentAt(1) = <<"p","o","s","t"," ","e","x","i","s","t","s"," ">> \o Decimal(call.post_id)
      [] call.op = "run_cron" -> SentAt(1) = <<"c","r","o","n"," ","e","v","e","n","t"," ","r","u","n"," ","-","-","d","u","e","-","n","o","w">>
      [] call.op = "set_config_param" -> StartsWith(SentAt(1), <<"c","o","n","f","i","g"," ","s","e","t"," ">> \o call.param \o <<" ","'">>)
      [] call.op = "delete_term" ->
            SentAt(1) = <<"t","e","r","m"," ","d","e","l","e","t","e"," ">> \o call.taxonomy \o <<" ">> \o call.term_id
      [] call.op = "theme_activate" ->
            issued = <<>> \/ SentAt(1) = <<"t","h","e","m","e"," ","a","c","t","i","v","a","t","e"," ">> \o call.theme_slug
      [] call.op = "create_command" -> issued = <<>> \/ IsUserGet(1)
      [] call.op = "update_command" ->
            issued = <<>> \/ SentAt(1) = <<"p","o","s","t"," ","g","e","t"," ">> \o Decimal(call.post_id) \o <<" ","-","-","f","o","r","m","a","t","=","j","s","o","n">>
      [] OTHER -> issued = <<>>

(* C19: statelessness.  No operation changes the adapter's stored target;  *)
(* every line an operation issues is built on that target, starting with   *)
(* `cd <wp_path> && <php_bin> <wp_cli> `; and the command an invocation    *)
(* issues is the one its own arguments determine, whatever invocations     *)
(* came before it.                                                         *)
C19_Stateless ==
    [][ /\ target' = target
        /\ \A i \in 1..Len(issued') : StartsWith(issued'[i], LinePrefix)
        /\ FirstCommandAsCalled'
      ]_vars

\* the second of two lookups in a row, on the target as constructed
C19_Witness ==
    /\ before # <<>>
    /\ target.wp_path = <<"/","s","r","v">>
    /\ Len(issued) = 1
    /\ StartsWith(issued[1], <<"c","d"," ","/","s","r","v"," ","&","&"," ","p","h","p","8"," ","w","p"," ","t","e","r","m"," ","g","e","t"," ","c","a","t","e","g","o","r","y"," ","1","2"," ">>)

----------------------------------------------------------------------------
(* Helpers of the claim about the bulk creation.                           *)

InFile == call.op = "_create_from_file"
Creates == {i \in 1..Len(issued) : IsCreate(i)}

\* the line of the k-th create command sent
CreateAt(k) == CHOOSE i \in Creates : Cardinality({j \in Creates : j <= i}) = k

\* the title the k-th post of the file is created with
TitleOf(k) ==
    LET post == call.posts[k]
        at == {m \in 1..Len(post) : post[m].k = <<"t","i","t","l","e">>}
    IN  IF at = {} THEN <<"U","n","t","i","t","l","e","d"," ","P","o","s","t"," ">> \o Decimal(k)
        ELSE post[CHOOSE m \in at : TRUE].v.s

\* the k-th create command succeeded and printed a number
Printed(k) == Strip(reply[CreateAt(k)].stdout)
Created(k) ==
    /\ PassedAt(CreateAt(k))
    /\ IsNumber(Printed(k))

\* the ids of the items that succeeded, in file order
CreatedIds ==
    LET ok == SelectSeq([k \in 1..Len(call.posts) |-> k], LAMBDA k : Created(k))
    IN  [j \in 1..Len(ok) |-> Number(Printed(ok[j]))]

----------------------------------------------------------------------------
(* Helpers of the claim about the error log.                               *)

\* the 'error:' rule decided the failure of the primitive's only command
ErrorRuleDecided ==
    /\ InExec /\ Answered
    /\ Has(PatError) /\ ~Has(PatCommandNotFound) /\ ~Has(PatNoSuchFile)

\* the failure was written to the log at level error, with the whole stderr
LoggedAsError ==
    \E i \in 1..Len(logged) :
        /\ logged[i].level = "error"
        /\ logged[i].msg = <<"W","P","-","C","L","I"," ","e","r","r","o","r",":"," ">> \o reply[1].stderr

NoisyPhrase == <<"t","e","r","m"," ","d","o","e","s","n","'","t"," ","e","x","i","s","t">>

(* C28 as stated: when stderr matches the 'error:' rule the failure is     *)
(* logged as an error unless stderr holds, in exactly this letter case,    *)
(* the phrase "term doesn't exist"; stderr holding the phrase only in      *)
(* another letter case is logged.                                          *)
C28_LogSuppression_AsStated ==
    ErrorRuleDecided => (LoggedAsError <=> ~Contains(reply[1].stderr, NoisyPhrase))

(* C28, amended: when stderr matches the 'error:' rule the failure is      *)
(* logged as an error unless stderr holds the phrase "term doesn't exist"  *)
(* in any letter case; the call raises either way.                         *)
C28_LogSuppression ==
    ErrorRuleDecided =>
        /\ LoggedAsError <=> ~Contains(Lower(reply[1].stderr), NoisyPhrase)
        /\ outcome.kind = "raise"

\* the tool's own wording, with a capital T, was not logged as an error
C28_Witness ==
    /\ ErrorRuleDecided
    /\ reply[1].stderr = <<"E","r","r","o","r",":"," ","T","e","r","m"," ","d","o","e","s","n","'","t"," ","e","x","i","s","t">>
    /\ ~Contains(reply[1].stderr, NoisyPhrase)
    /\ ~LoggedAsError
    /\ outcome.kind = "raise"

----------------------------------------------------------------------------
(* Helpers of the claim about the command of set_post_categories.          *)

RECURSIVE CommaFields(_)
\* the fields of a text between its commas
CommaFields(text) ==
    LET c == NextIn(text, 1, {","})
    IN  IF c > Len(text) THEN <<text>>
        ELSE <<SubSeq(text, 1, c - 1)>> \o CommaFields(SubSeq(text, c + 1, Len(text)))

CategoryOption == <<"-","-","p","o","s","t","_","c","a","t","e","g","o","r","y","=">>

\* the words of the first line are: post update <post_id> --post_category=<ids>
IsCategoryUpdate(post_id, category_ids) ==
    LET words == FragmentWords(1)
    IN  /\ Len(words) = 4
        /\ words[1] = <<"p","o","s","t">> /\ words[2] = <<"u","p","d","a","t","e">>
        /\ IsNumber(words[3]) /\ Number(words[3]) = post_id
        /\ StartsWith(words[4], CategoryOption)
        /\ LET fields == CommaFields(SubSeq(words[4], Len(CategoryOption) + 1, Len(words[4])))
           IN  /\ Len(fields) = Len(category_ids)
               /\ \A i \in 1..Len(fields) :
                    IsNumber(fields[i]) /\ Number(fields[i]) = category_ids[i]

(* C29: set_post_categories with an empty category list returns false and  *)
(* issues no remote command; with a non-empty list its first command is    *)
(* post update <post_id> --post_category=<ids joined by commas, in the     *)
(* given order>, and when that command raises no error the call returns    *)
(* true after exactly that one command.                                    *)
C29_CategoryCommand ==
    InSetCategories =>
        /\ call.category_ids = <<>> => outcome = Return(FalseVal) /\ issued = <<>>
        /\ call.category_ids # <<>> =>
            /\ issued # <<>>
            /\ IsCategoryUpdate(call.post_id, call.category_ids)
            /\ PassedAt(1) => outcome = Return(TrueVal) /\ Len(issued) = 1

\* categories 1 and 2 were set with one command, which succeeded
C29_Witness ==
    /\ InSetCategories
    /\ call.category_ids = <<1, 2>>
    /\ SentAt(1) = <<"p","o","s","t"," ","u","p","d","a","t","e"," ","1","2","3"," ","-","-","p","o","s","t","_","c","a","t","e","g","o","r","y","=","1",",","2">>
    /\ PassedAt(1)
    /\ Len(issued) = 1
    /\ outcome = Return(TrueVal)

----------------------------------------------------------------------------
(* Helpers of the claims about the kinds of failure.                       *)

\* the executor returned a (stdout, stderr) pair for every line sent
AllAnswered == \A i \in 1..Len(reply) : ~reply[i].raises

(* C24: single error kind.  Every adapter operation either returns its     *)
(* payload or raises WPCLIError: whatever pairs (stdout, stderr) the        *)
(* executor returns, stdout that is not an integer or not valid JSON        *)
(* included, no failure of another kind reaches the caller.                *)
C24_SingleErrorKind ==
    (AdapterOperation /\ AllAnswered /\ outcome.kind = "raise") => outcome.exc = "WPCLIError"

----------------------------------------------------------------------------
(* Helpers of the claim about single-quoted fragments.                     *)

\* the line was sent whole to the shell: no quoted region is left open
WellQuoted(i) == ShellWords(issued[i]).ok

\* the create command of a create_post call, when it was sent
CreateLine == IF issued # <<>> /\ IsCreate(Len(issued)) THEN Len(issued) ELSE 0

(* C27: safely-escaped command line.  Where an adapter operation places a  *)
(* caller-supplied string between single quotes, the quoted fragment       *)
(* unquotes under the shell's rules to exactly that string: the category   *)
(* name of get_category_by_name is the fourth word of its lookup, and the  *)
(* field values of create_post follow the "=" of their options; a quote in *)
(* the input never ends the quoted region.                                 *)
C27_SafelyEscaped ==
    /\ InByName =>
        /\ WellQuoted(1)
        /\ Len(FragmentWords(1)) >= 4
        /\ FragmentWords(1)[4] = call.name
    /\ (InCreate /\ CreateLine > 0) =>
        /\ WellQuoted(CreateLine)
        /\ Len(FragmentWords(CreateLine)) >= 2 + Len(call.kwargs)
        /\ \A i \in 1..Len(call.kwargs) :
            FragmentWords(CreateLine)[2 + i] = SuppliedWords[i]

----------------------------------------------------------------------------
(* Helpers of the claims about the operations answered with a boolean.     *)

InPostExists == call.op = "post_exists"

(* C25: exists checks convert errors into booleans.  post_exists(id)       *)
(* issues exactly one command, post exists <id>; it returns true when the  *)
(* execution primitive completes without error and false when it fails, by *)
(* an error the tool reported or by a transport failure; it never raises.  *)
C25_ExistsIsBoolean ==
    InPostExists =>
        /\ Len(issued) = 1
        /\ FragmentWords(1)[1] = <<"p","o","s","t">> /\ FragmentWords(1)[2] = <<"e","x","i","s","t","s">>
        /\ Len(FragmentWords(1)) = 3
        /\ IsNumber(FragmentWords(1)[3]) /\ Number(FragmentWords(1)[3]) = call.post_id
        /\ outcome.kind = "return"
        /\ PassedAt(1) => outcome = Return(TrueVal)
        /\ FailedAt(1) => outcome = Return(FalseVal)

\* the executor timed out and the check answered false
C25_Witness ==
    /\ InPostExists
    /\ reply[1].raises
    /\ outcome = Return(FalseVal)

\* the operations the propagation policy leaves no exception for
MustPropagate ==
    call.op \in {"_execute_wp", "wp", "get_category_by_id", "run_cron", "set_config_param", "delete_term"}

(* C23: propagation policy.  In every adapter operation other than         *)
(* set_post_categories, the default-author resolution,                     *)
(* get_category_by_name and the exists checks, an error raised by the      *)
(* execution primitive reaches the operation's caller as a WPCLIError: the *)
(* operation does not turn the failure into a normal return value.         *)
C23_FailuresPropagate ==
    /\ (MustPropagate /\ FailedAt(1)) =>
            (outcome.kind = "raise" /\ outcome.exc = "WPCLIError")
    /\ (InCreate /\ CreateLine > 0 /\ FailedAt(CreateLine)) =>
            (outcome.kind = "raise" /\ outcome.exc = "WPCLIError")


----------------------------------------------------------------------------
(* The update command.                                                     *)

InUpdate == call.op = "update_command"

\* the update command fetched the current content and went on to replace
ContentFetched ==
    /\ InUpdate
    /\ Truthy(call.find_text) /\ Truthy(call.replace_text)
    /\ Len(issued) >= 2
    /\ ~reply[1].raises /\ ~reply[2].raises
    /\ ~(Len(issued) = 2 /\ outcome.kind = "raise")

\* the content the executor answered, as the adapter hands it on
CurrentContent == Strip(reply[2].stdout)

\* the content after the replacement the options ask for
NewContent ==
    IF (call.line # 0 \/ call.nth # 0) /\ ~call.edits THEN CurrentContent
    ELSE ReplaceAll(CurrentContent, call.find_text, call.replace_text)

SaidNoChanges ==
    \E i \in 1..Len(printed) : printed[i] = <<"[","y","e","l","l","o","w","]","N","o"," ","c","h","a","n","g","e","s"," ","t","o"," ","a","p","p","l","y","[","/","y","e","l","l","o","w","]">>

(* C30: change detection.  In the update command, whenever the             *)
(* find/replace step produces new content that differs from the current    *)
(* content, the update is not skipped as 'No changes to apply'; this holds *)
(* also when the replacement changes the number of lines.                  *)
C30_ChangesDetected ==
    (ContentFetched /\ NewContent # CurrentContent) => ~SaidNoChanges

\* a remote command that modifies the post was issued
Modifies(i) == StartsWith(SentAt(i), <<"p","o","s","t"," ","u","p","d","a","t","e"," ">>)

(* C26: preview applies nothing.  Whenever the update command is run with  *)
(* --preview, whatever the other arguments are, no remote command that     *)
(* modifies the post (content update or category assignment) is issued.    *)
C26_PreviewAppliesNothing ==
    (InUpdate /\ call.preview) => \A i \in 1..Len(issued) : ~Modifies(i)


----------------------------------------------------------------------------
(* The command handlers.                                                   *)

InHandler == call.op \in {"create_command", "update_command", "theme_activate"}

\* the positions of the session's events of one kind
EventsOf(kind) == {k \in 1..Len(session) : session[k].ev = kind}

\* the lines executed over the connection, in order
Executed ==
    LET RECURSIVE LinesFrom(_)
        LinesFrom(k) ==
            IF k > Len(session) THEN <<>>
            ELSE (IF session[k].ev = "execute" THEN <<session[k].line>> ELSE <<>>) \o LinesFrom(k + 1)
    IN  LinesFrom(1)

(* C21: scoped connection.  In the create, update and theme command        *)
(* handlers the remote connection is acquired at most once, before the     *)
(* first adapter call, and is released exactly once on every path out of   *)
(* the handler; every line of an adapter call is executed after the        *)
(* acquisition and before the release.                                     *)
C21_ScopedConnection ==
    InHandler =>
        /\ Cardinality(EventsOf("connect")) <= 1
        /\ Cardinality(EventsOf("disconnect")) = Cardinality(EventsOf("connect"))
        /\ \A e \in EventsOf("execute") :
                \E c \in EventsOf("connect"), d \in EventsOf("disconnect") : c < e /\ e < d
        /\ Len(Executed) >= Len(issued)
        /\ SubSeq(Executed, Len(Executed) - Len(issued) + 1, Len(Executed)) = issued

\* an adapter call failed inside the block and the connection was released
C21_Witness ==
    /\ InHandler
    /\ issued # <<>>
    /\ \E r \in EventsOf("raised"), d \in EventsOf("disconnect") :
            /\ r < d
            /\ \A e \in EventsOf("execute") : e < r
    /\ outcome.kind = "raise"


InCreateOrUpdate == call.op \in {"create_command", "update_command"}

\* something went wrong in the handler: the connection was refused, an
\* exception left the block, or the arguments were turned down before it
HandlerFailed ==
    \/ EventsOf("raised") # {} \/ EventsOf("connect_failed") # {}
    \/ call.op = "create_command" /\ ~Truthy(call.content)
    \/ /\ call.op = "update_command"
       /\ ~(Truthy(call.find_text) /\ Truthy(call.replace_text))
       /\ ~(Truthy(call.category) \/ Truthy(call.category_id))

\* what the handler's log names as the reason of the failure
FailureLogged(prefix) ==
    /\ logged # <<>>
    /\ logged[Len(logged)].level = "error"
    /\ StartsWith(logged[Len(logged)].msg, prefix)

\* the console's last line presents the message the log holds
MessagePresented(prefix) ==
    /\ FailureLogged(prefix)
    /\ printed # <<>>
    /\ printed[Len(printed)] =
            <<"[","r","e","d","]","E","r","r","o","r",":"," ">>
                \o SubSeq(logged[Len(logged)].msg, Len(prefix) + 1, Len(logged[Len(logged)].msg))
                \o <<"[","/","r","e","d","]">>

\* the single post was created before the handler failed
CreatedThenFailed ==
    /\ call.op = "create_command"
    /\ HandlerFailed
    /\ \E i \in 1..Len(issued) : IsCreate(i) /\ PassedAt(i)
    /\ \E k \in 1..Len(logged) :
            logged[k].level = "info" /\ StartsWith(logged[k].msg, <<"C","r","e","a","t","e","d"," ","p","o","s","t"," ","I","D",":"," ">>)

CategoryNotFound ==
    /\ printed # <<>>
    /\ StartsWith(printed[Len(printed)], <<"[","r","e","d","]","E","r","r","o","r",":"," ","C","a","t","e","g","o","r","y"," ","'">>)

====
